---- MODULE Spec2Model ----
(***************************************************************************)
(* PNG to OTBM converter: the OTBM binary writer (OTBMWriter) and the      *)
(* image analysis of PNGToOTBMApp, as state machines.                      *)
(*                                                                         *)
(* Bytes are integers 0..255, byte buffers are sequences of bytes, strings *)
(* are sequences of UTF-16 code units.  JavaScript's `v & 0xFF` is         *)
(* `v % 256` and `(v >> k) & 0xFF` is `(v \div 2^k) % 256` (floor          *)
(* division), for every 32-bit integer v, negative ones included.          *)
(***************************************************************************)
EXTENDS Integers, Sequences, FiniteSets, TLC

VARIABLES
    writer,                 \* the OTBMWriter object: its fields
    ret,                    \* the last call made and what it returned
    payload,                \* the raw bytes handed to the escaping primitives so far
    probe,                  \* the byte value a run of the primitives exercises
    variant,                \* which PNGToOTBMApp is running: "app.js" or "part_000"
    image,                  \* PNGToOTBMApp.image (Null or the decoded image)
    imageData,              \* PNGToOTBMApp.imageData (Null or the pixel buffer)
    colorMappings,          \* PNGToOTBMApp.colorMappings: a Map, in insertion order
    transparentPixelCount,  \* PNGToOTBMApp.transparentPixelCount
    savedMappings,          \* localStorage 'pngToOtbmColorMappings': <<hex, tileId>> pairs
    pending                 \* the _loadImage calls whose callbacks have not all run

vars == <<writer, ret, payload, probe, variant, image, imageData,
          colorMappings, transparentPixelCount, savedMappings, pending>>

writerVars == <<writer, payload, probe>>
appVars == <<variant, image, imageData, colorMappings, transparentPixelCount,
             savedMappings>>

\* JavaScript's null, comparable with the objects a field may hold instead
Null == [null |-> TRUE]

---------------------------------------------------------------------------
(* OTBM control characters, node types and attributes                      *)

NODE_START == 254
NODE_END == 255
ESCAPE == 253

OTBM_ROOTV1 == 1
OTBM_MAP_DATA == 2
OTBM_TILE_AREA == 4
OTBM_TILE == 5
OTBM_ITEM == 6
OTBM_TOWNS == 12
OTBM_WAYPOINTS == 15

OTBM_ATTR_DESCRIPTION == 1
OTBM_ATTR_ITEM == 9

---------------------------------------------------------------------------
(* Binary primitive writer.  Each operator is the byte sequence the call   *)
(* pushes at the end of this.buffer.                                       *)

_writeByte(value) == <<value % 256>>

\* Mutant: the escape byte itself is written unescaped.
_writeEscapedByte_NoSelfEscape(value) ==
    LET v == value % 256 IN
    IF v = NODE_START \/ v = NODE_END THEN <<ESCAPE, v>> ELSE <<v>>

_writeEscapedByte(value) ==
    LET v == value % 256 IN
    IF v = NODE_START \/ v = NODE_END \/ v = ESCAPE THEN <<ESCAPE, v>> ELSE <<v>>

\* for (const b of bytes) this._writeEscapedByte(b): what the calls for
\* bytes[lo..hi] push, in order
RECURSIVE _writeEscapedBytesIn(_, _, _)
_writeEscapedBytesIn(bytes, lo, hi) ==
    IF lo > hi THEN <<>>
    ELSE IF lo = hi THEN _writeEscapedByte(bytes[lo])
    ELSE LET mid == (lo + hi) \div 2 IN
         _writeEscapedBytesIn(bytes, lo, mid) \o _writeEscapedBytesIn(bytes, mid + 1, hi)

_writeEscapedBytes(bytes) == _writeEscapedBytesIn(bytes, 1, Len(bytes))

_writeU16(value) ==
    _writeEscapedByte(value % 256) \o _writeEscapedByte((value \div 256) % 256)

\* Mutant: the most significant byte is written as 0.
_writeU32_TopByteDropped(value) ==
    _writeEscapedByte(value % 256)
        \o _writeEscapedByte((value \div 256) % 256)
        \o _writeEscapedByte((value \div 65536) % 256)
        \o _writeEscapedByte(0)

_writeU32(value) ==
    _writeEscapedByte(value % 256)
        \o _writeEscapedByte((value \div 256) % 256)
        \o _writeEscapedByte((value \div 65536) % 256)
        \o _writeEscapedByte((value \div 16777216) % 256)

\* new TextEncoder().encode(str): UTF-8 of a string of UTF-16 code units; a
\* surrogate pair is one 4-byte code point, a lone surrogate becomes U+FFFD.
IsHighSurrogate(c) == c >= 55296 /\ c <= 56319
IsLowSurrogate(c) == c >= 56320 /\ c <= 57343

Utf8OfCodePoint(cp) ==
    IF cp < 128 THEN <<cp>>
    ELSE IF cp < 2048 THEN <<192 + (cp \div 64), 128 + (cp % 64)>>
    ELSE IF cp < 65536
         THEN <<224 + (cp \div 4096), 128 + ((cp \div 64) % 64), 128 + (cp % 64)>>
    ELSE <<240 + (cp \div 262144), 128 + ((cp \div 4096) % 64),
           128 + ((cp \div 64) % 64), 128 + (cp % 64)>>

RECURSIVE TextEncodeFrom(_, _)
TextEncodeFrom(str, i) ==
    IF i > Len(str) THEN <<>>
    ELSE LET c == str[i] IN
         IF IsHighSurrogate(c) /\ i < Len(str) /\ IsLowSurrogate(str[i + 1])
         THEN Utf8OfCodePoint(65536 + (c - 55296) * 1024 + (str[i + 1] - 56320))
                  \o TextEncodeFrom(str, i + 2)
         ELSE IF IsHighSurrogate(c) \/ IsLowSurrogate(c)
         THEN <<239, 191, 189>> \o TextEncodeFrom(str, i + 1)
         ELSE Utf8OfCodePoint(c) \o TextEncodeFrom(str, i + 1)

TextEncode(str) == TextEncodeFrom(str, 1)

\* Mutant: the length written is str.length, the number of code units.
_writeString_CodeUnits(str) ==
    _writeU16(Len(str)) \o _writeEscapedBytes(TextEncode(str))

_writeString(str) ==
    LET encoded == TextEncode(str) IN
    _writeU16(Len(encoded)) \o _writeEscapedBytes(encoded)

---------------------------------------------------------------------------
(* Node encoder                                                            *)

_startNode(nodeType) == <<NODE_START>> \o _writeByte(nodeType)

_endNode == <<NODE_END>>

\* Mutant: width and height written in the wrong order.
_writeRootHeader_Swapped(w) ==
    _writeU32(w.otbmVersion)
        \o _writeU16(w.height)
        \o _writeU16(w.width)
        \o _writeU32(w.otbMajorVersion)
        \o _writeU32(w.otbMinorVersion)

_writeRootHeader(w) ==
    _writeU32(w.otbmVersion)
        \o _writeU16(w.width)
        \o _writeU16(w.height)
        \o _writeU32(w.otbMajorVersion)
        \o _writeU32(w.otbMinorVersion)

\* the loop over tile.items of _writeTile
RECURSIVE _writeItemsFrom(_, _)
_writeItemsFrom(items, i) ==
    IF i > Len(items) THEN <<>>
    ELSE _startNode(OTBM_ITEM) \o _writeU16(items[i]) \o _endNode
             \o _writeItemsFrom(items, i + 1)

\* Mutant: the ground id is written with _writeByte, without escaping.
_writeTile_RawGround(tile, baseX, baseY) ==
    LET xOffset == tile.x - baseX
        yOffset == tile.y - baseY
    IN  _startNode(OTBM_TILE)
            \o _writeEscapedByte(xOffset)
            \o _writeEscapedByte(yOffset)
            \o _writeByte(OTBM_ATTR_ITEM)
            \o _writeByte(tile.groundId) \o _writeByte(tile.groundId \div 256)
            \o _writeItemsFrom(tile.items, 1)
            \o _endNode

\* Mutant: the y offset is written before the x offset.
_writeTile_SwappedOffsets(tile, baseX, baseY) ==
    LET xOffset == tile.x - baseX
        yOffset == tile.y - baseY
    IN  _startNode(OTBM_TILE)
            \o _writeEscapedByte(yOffset)
            \o _writeEscapedByte(xOffset)
            \o _writeByte(OTBM_ATTR_ITEM)
            \o _writeU16(tile.groundId)
            \o _writeItemsFrom(tile.items, 1)
            \o _endNode

_writeTile(tile, baseX, baseY) ==
    LET xOffset == tile.x - baseX
        yOffset == tile.y - baseY
    IN  _startNode(OTBM_TILE)
            \o _writeEscapedByte(xOffset)
            \o _writeEscapedByte(yOffset)
            \o _writeByte(OTBM_ATTR_ITEM)
            \o _writeU16(tile.groundId)
            \o _writeItemsFrom(tile.items, 1)
            \o _endNode

\* the loop over tiles of _writeTileArea
RECURSIVE _writeTilesFrom(_, _, _, _)
_writeTilesFrom(tiles, baseX, baseY, i) ==
    IF i > Len(tiles) THEN <<>>
    ELSE _writeTile(tiles[i], baseX, baseY)
             \o _writeTilesFrom(tiles, baseX, baseY, i + 1)

_writeTileArea(baseX, baseY, z, tiles) ==
    _startNode(OTBM_TILE_AREA)
        \o _writeU16(baseX)
        \o _writeU16(baseY)
        \o _writeEscapedByte(z)
        \o _writeTilesFrom(tiles, baseX, baseY, 1)
        \o _endNode

---------------------------------------------------------------------------
(* Area grouping: `areas` is a JavaScript Map keyed by a string; it is a   *)
(* sequence of entries in insertion order.                                 *)

\* tile.x & 0xFF00
AreaBase(c) == ((c \div 256) % 256) * 256

Digit(d) == CASE d = 0 -> "0" [] d = 1 -> "1" [] d = 2 -> "2" [] d = 3 -> "3"
              [] d = 4 -> "4" [] d = 5 -> "5" [] d = 6 -> "6" [] d = 7 -> "7"
              [] d = 8 -> "8" [] d = 9 -> "9"

RECURSIVE NatToString(_)
NatToString(n) ==
    IF n < 10 THEN <<Digit(n)>> ELSE Append(NatToString(n \div 10), Digit(n % 10))

\* `${n}` for an integer n: the characters of its decimal numeral
NumToString(n) == IF n < 0 THEN <<"-">> \o NatToString(0 - n) ELSE NatToString(n)

\* Mutant: the floor level is left out of the key.
AreaKey_NoZ(areaX, areaY, z) ==
    NumToString(areaX) \o <<",">> \o NumToString(areaY)

\* `${areaX},${areaY},${tile.z}`
AreaKey(areaX, areaY, z) ==
    NumToString(areaX) \o <<",">> \o NumToString(areaY) \o <<",">> \o NumToString(z)

\* areas.has(key): the index of the entry with that key, 0 when there is none
AreaIndex(areas, key) ==
    IF \E k \in 1..Len(areas) : areas[k].key = key
    THEN CHOOSE k \in 1..Len(areas) : areas[k].key = key
    ELSE 0

\* Mutant: the tile is put at the front of its area's list.
AddTileToAreas_Unshift(areas, tile) ==
    LET areaX == AreaBase(tile.x)
        areaY == AreaBase(tile.y)
        areaKey == AreaKey(areaX, areaY, tile.z)
        had == AreaIndex(areas, areaKey)
        withKey == IF had = 0
                   THEN Append(areas, [key |-> areaKey, areaX |-> areaX,
                                       areaY |-> areaY, z |-> tile.z, tiles |-> <<>>])
                   ELSE areas
        k == AreaIndex(withKey, areaKey)
    IN  [withKey EXCEPT ![k].tiles = <<tile>> \o @]

\* one turn of the grouping loop of _writeMapData
AddTileToAreas(areas, tile) ==
    LET areaX == AreaBase(tile.x)
        areaY == AreaBase(tile.y)
        areaKey == AreaKey(areaX, areaY, tile.z)
        had == AreaIndex(areas, areaKey)
        withKey == IF had = 0
                   THEN Append(areas, [key |-> areaKey, areaX |-> areaX,
                                       areaY |-> areaY, z |-> tile.z, tiles |-> <<>>])
                   ELSE areas
        k == AreaIndex(withKey, areaKey)
    IN  [withKey EXCEPT ![k].tiles = Append(@, tile)]

RECURSIVE GroupTilesFrom(_, _, _)
GroupTilesFrom(areas, tiles, i) ==
    IF i > Len(tiles) THEN areas
    ELSE GroupTilesFrom(AddTileToAreas(areas, tiles[i]), tiles, i + 1)

GroupTiles(tiles) == GroupTilesFrom(<<>>, tiles, 1)

\* the loop over areas.values() of _writeMapData
RECURSIVE _writeAreasFrom(_, _)
_writeAreasFrom(areas, i) ==
    IF i > Len(areas) THEN <<>>
    ELSE _writeTileArea(areas[i].areaX, areas[i].areaY, areas[i].z, areas[i].tiles)
             \o _writeAreasFrom(areas, i + 1)

\* Mutant: waypoints only for versions above 2.
HasWaypoints_Above2(otbmVersion) == otbmVersion > 2

\* if (this.otbmVersion >= 2)
HasWaypoints(otbmVersion) == otbmVersion >= 2

\* Mutant: a map without tiles gets no Towns node.
_writeMapData_TownsWithTiles(w) ==
    _startNode(OTBM_MAP_DATA)
        \o _writeByte(OTBM_ATTR_DESCRIPTION)
        \o _writeString(w.description)
        \o _writeAreasFrom(GroupTiles(w.tiles), 1)
        \o (IF w.tiles # <<>> THEN _startNode(OTBM_TOWNS) \o _endNode ELSE <<>>)
        \o (IF HasWaypoints(w.otbmVersion)
            THEN _startNode(OTBM_WAYPOINTS) \o _endNode
            ELSE <<>>)
        \o _endNode

_writeMapData(w) ==
    _startNode(OTBM_MAP_DATA)
        \o _writeByte(OTBM_ATTR_DESCRIPTION)
        \o _writeString(w.description)
        \o _writeAreasFrom(GroupTiles(w.tiles), 1)
        \o _startNode(OTBM_TOWNS) \o _endNode
        \o (IF HasWaypoints(w.otbmVersion)
            THEN _startNode(OTBM_WAYPOINTS) \o _endNode
            ELSE <<>>)
        \o _endNode

\* Mutant: generate() appends to the buffer it finds.
generate_Appending(w) ==
    w.buffer \o <<79, 84, 66, 77>>
        \o _startNode(OTBM_ROOTV1)
        \o _writeRootHeader(w)
        \o _writeMapData(w)
        \o _endNode

\* this.buffer after generate(): reset, then written from the start
generate(w) ==
    <<79, 84, 66, 77>>
        \o _startNode(OTBM_ROOTV1)
        \o _writeRootHeader(w)
        \o _writeMapData(w)
        \o _endNode

---------------------------------------------------------------------------
(* The OTBMWriter object and its operations                                *)

constructor(width, height, description, otbmVersion, otbMajorVersion, otbMinorVersion) ==
    [width |-> width, height |-> height, description |-> description,
     tiles |-> <<>>, buffer |-> <<>>,
     otbmVersion |-> otbmVersion, otbMajorVersion |-> otbMajorVersion,
     otbMinorVersion |-> otbMinorVersion]

NoReturn == [op |-> "new", data |-> <<>>, areas |-> <<>>]

\* A JavaScript Map: the keys in insertion order and the value of each key.
NewMap == [keys |-> <<>>, val |-> <<>>]

MapHas(m, k) == k \in DOMAIN m.val

MapSize(m) == Len(m.keys)

\* Map.prototype.set: a new key goes last, an old key keeps its position
MapSet(m, k, v) ==
    IF MapHas(m, k)
    THEN [m EXCEPT !.val[k] = v]
    ELSE [keys |-> Append(m.keys, k), val |-> (k :> v) @@ m.val]

\* [...m.entries()]
MapEntries(m) == [i \in 1..Len(m.keys) |-> <<m.keys[i], m.val[m.keys[i]]>>]

\* The application before any image is loaded (PNGToOTBMApp's constructor).
AppConstructed ==
    /\ image = Null
    /\ imageData = Null
    /\ colorMappings = NewMap
    /\ transparentPixelCount = 0
    /\ pending = <<>>

\* Bounds of the writer runs
MaxTiles == 3
MaxOps == 2

\* Constructor arguments tried: the defaults of a one-pixel map, a map whose
\* header bytes all need escaping, and a map wider than a u16 (app.js does not
\* limit the offsets it adds to the image size).
WriterArgs ==
    { <<1, 1, <<>>, 1, 1, 1>>,
      <<65279, 65535, <<77, 233>>, 2, 2, 7>>,
      <<65790, 253, <<8364>>, 3, 3, 65>> }

\* Tiles tried: two in the cell at the origin, one in the next cell down with
\* an extra item, one on another floor, the last map cell with ids whose bytes
\* need escaping, and one whose coordinates and id lie outside 0..65535.
TileArgs ==
    { [x |-> 0, y |-> 0, z |-> 7, groundId |-> 100, items |-> <<>>],
      [x |-> 5, y |-> 3, z |-> 7, groundId |-> 200, items |-> <<>>],
      [x |-> 255, y |-> 511, z |-> 7, groundId |-> 65023, items |-> <<255>>],
      [x |-> 5, y |-> 3, z |-> 254, groundId |-> 100, items |-> <<>>],
      [x |-> 65535, y |-> 65535, z |-> 15, groundId |-> 65535,
       items |-> <<65024, 1>>],
      [x |-> 65541, y |-> -3, z |-> 7, groundId |-> 70000, items |-> <<>>] }

InitWriter ==
    /\ \E a \in WriterArgs :
           writer = constructor(a[1], a[2], a[3], a[4], a[5], a[6])
    /\ ret = NoReturn
    /\ payload = <<>>
    /\ probe = 0
    /\ variant = "part_000"
    /\ savedMappings = <<>>
    /\ AppConstructed

addTile(x, y, z, groundId, items) ==
    /\ Len(writer.tiles) < MaxTiles
    /\ writer' = [writer EXCEPT !.tiles = Append(@, [x |-> x, y |-> y, z |-> z,
                                                    groundId |-> groundId,
                                                    items |-> items])]
    /\ ret' = [op |-> "addTile", data |-> <<>>, areas |-> <<>>]
    /\ UNCHANGED <<payload, probe, pending>>
    /\ UNCHANGED appVars

AddTile == \E t \in TileArgs : addTile(t.x, t.y, t.z, t.groundId, t.items)

\* generate(): `areas` records the grouping the call built in _writeMapData.
Generate ==
    /\ writer' = [writer EXCEPT !.buffer = generate(writer)]
    /\ ret' = [op |-> "generate", data |-> generate(writer),
               areas |-> GroupTiles(writer.tiles)]
    /\ UNCHANGED <<payload, probe, pending>>
    /\ UNCHANGED appVars

NextWriter == AddTile \/ Generate

SpecWriter == InitWriter /\ [][NextWriter]_vars

---------------------------------------------------------------------------
(* The escaping primitives on their own: a run writes up to MaxOps values  *)
(* to an empty buffer; `payload` lists the calls made.                     *)

InitPrim ==
    /\ writer = constructor(1, 1, <<>>, 2, 2, 7)
    /\ ret = NoReturn
    /\ payload = <<>>
    /\ probe \in 0..255
    /\ variant = "part_000"
    /\ savedMappings = <<>>
    /\ AppConstructed

PrimCall(op, arg, pushed) ==
    /\ Len(payload) < MaxOps
    /\ writer' = [writer EXCEPT !.buffer = @ \o pushed]
    /\ payload' = Append(payload, [op |-> op, arg |-> arg])
    /\ ret' = [op |-> op, data |-> <<>>, areas |-> <<>>]
    /\ UNCHANGED <<probe, pending>>
    /\ UNCHANGED appVars

WriteEscapedByte ==
    PrimCall("_writeEscapedByte", <<probe>>, _writeEscapedByte(probe))

WriteEscapedBytes ==
    LET bytes == <<254, probe, 253>> IN
    PrimCall("_writeEscapedBytes", bytes, _writeEscapedBytes(bytes))

WriteU16 ==
    \E v \in {probe * 256 + 255, 65024 + probe} :
        PrimCall("_writeU16", <<v>>, _writeU16(v))

WriteU32 ==
    LET v == probe * 65536 + 65023 IN
    PrimCall("_writeU32", <<v>>, _writeU32(v))

WriteString ==
    LET str == <<probe, 8364>> IN
    PrimCall("_writeString", str, _writeString(str))

NextPrim ==
    WriteEscapedByte \/ WriteEscapedBytes \/ WriteU16 \/ WriteU32 \/ WriteString

SpecPrim == InitPrim /\ [][NextPrim]_vars

---------------------------------------------------------------------------
(* Reading a byte stream back, as an OTBM reader does: an unescaped 0xFD   *)
(* makes the byte after it a data byte; an unescaped 0xFE / 0xFF is a node *)
(* start / end marker; every other byte is data.                           *)

\* how many 0xFD bytes stand immediately before position i
RECURSIVE EscapesBefore(_, _)
EscapesBefore(b, i) ==
    IF i > 1 /\ b[i - 1] = 253 THEN 1 + EscapesBefore(b, i - 1) ELSE 0

KindAt(b, i) ==
    IF EscapesBefore(b, i) % 2 = 1 THEN "data"
    ELSE IF b[i] = 253 THEN "escape"
    ELSE IF b[i] = 254 THEN "start"
    ELSE IF b[i] = 255 THEN "end"
    ELSE "data"

\* the stream ends in an escape byte that escapes nothing
DanglingEscape(b) == Len(b) > 0 /\ KindAt(b, Len(b)) = "escape"

\* the tokens of b[lo..hi]: the escape bytes removed, each other byte with its kind
RECURSIVE TokensIn(_, _, _)
TokensIn(b, lo, hi) ==
    IF lo > hi THEN <<>>
    ELSE IF lo = hi
         THEN IF KindAt(b, lo) = "escape" THEN <<>>
              ELSE <<[k |-> KindAt(b, lo), v |-> b[lo]]>>
    ELSE LET mid == (lo + hi) \div 2 IN
         TokensIn(b, lo, mid) \o TokensIn(b, mid + 1, hi)

Tokens(b) == TokensIn(b, 1, Len(b))

\* the stream with each escape byte removed and the byte after it kept
Unescape(b) == [i \in 1..Len(Tokens(b)) |-> Tokens(b)[i].v]

\* the n bytes of v, least significant first
RECURSIVE LEBytes(_, _)
LEBytes(v, n) == IF n = 0 THEN <<>> ELSE <<v % 256>> \o LEBytes(v \div 256, n - 1)

\* the number a little-endian byte sequence stands for
RECURSIVE LEValue(_)
LEValue(bytes) == IF bytes = <<>> THEN 0 ELSE bytes[1] + 256 * LEValue(Tail(bytes))

IsControl(byte) == byte \in {253, 254, 255}

ControlCount(bytes) == Cardinality({i \in 1..Len(bytes) : IsControl(bytes[i])})

---------------------------------------------------------------------------
(* C1                                                                      *)

\* the payload bytes a primitive call is asked to write
RawBytes(call) ==
    CASE call.op = "_writeEscapedByte" -> <<call.arg[1] % 256>>
      [] call.op = "_writeEscapedBytes" -> call.arg
      [] call.op = "_writeU16" -> LEBytes(call.arg[1], 2)
      [] call.op = "_writeU32" -> LEBytes(call.arg[1], 4)
      [] call.op = "_writeString" ->
             LEBytes(Len(TextEncode(call.arg)), 2) \o TextEncode(call.arg)

RECURSIVE RawPayloadFrom(_, _)
RawPayloadFrom(calls, i) ==
    IF i > Len(calls) THEN <<>>
    ELSE RawBytes(calls[i]) \o RawPayloadFrom(calls, i + 1)

RawPayload == RawPayloadFrom(payload, 1)

\* C1: _writeEscapedByte(b) pushes [0xFD, b] for b in {0xFD, 0xFE, 0xFF} and [b]
\* for every other byte b of 0..255; whatever _writeEscapedByte(s), _writeU16,
\* _writeU32 and _writeString wrote, the buffer holds no unescaped control byte,
\* one escape byte per control byte of the payload, and removing the escape
\* bytes gives back the payload bytes.
C1_EscapeRoundTrip ==
    LET t == Tokens(writer.buffer) IN
    /\ (Len(payload) = 1 /\ payload[1].op = "_writeEscapedByte") =>
           LET b == payload[1].arg[1] IN
           writer.buffer = IF b = 253 \/ b = 254 \/ b = 255 THEN <<253, b>> ELSE <<b>>
    /\ ~DanglingEscape(writer.buffer)
    /\ \A i \in 1..Len(t) : t[i].k = "data"
    /\ Len(writer.buffer) = Len(RawPayload) + ControlCount(RawPayload)
    /\ [i \in 1..Len(t) |-> t[i].v] = RawPayload

\* two calls made, the payload holding each of the three control bytes
C1_Witness ==
    /\ Len(payload) = 2
    /\ payload[1].op = "_writeU16"
    /\ payload[2].op = "_writeEscapedBytes"
    /\ {253, 254, 255} \subseteq {RawPayload[i] : i \in 1..Len(RawPayload)}
    /\ Len(writer.buffer) > Len(RawPayload)

---------------------------------------------------------------------------
(* The node tree of a token sequence t.  D is Depths(t).                   *)

\* the nesting depths after each of the tokens lo..hi, `before` being the depth
\* before token lo
RECURSIVE DepthsIn(_, _, _, _)
DepthsIn(t, lo, hi, before) ==
    IF lo > hi THEN <<>>
    ELSE IF lo = hi
         THEN <<before + (IF t[lo].k = "start" THEN 1
                          ELSE IF t[lo].k = "end" THEN -1 ELSE 0)>>
    ELSE LET mid == (lo + hi) \div 2
             left == DepthsIn(t, lo, mid, before)
         IN  left \o DepthsIn(t, mid + 1, hi, left[Len(left)])

\* D[i]: how many nodes are open after token i
Depths(t) ==
    LET S == DepthsIn(t, 1, Len(t), 0) IN
    [i \in 0..Len(t) |-> IF i = 0 THEN 0 ELSE S[i]]

Starts(t) == {i \in 1..Len(t) : t[i].k = "start"}

\* the type byte of the node that starts at token i
NodeType(t, i) == IF i < Len(t) /\ t[i + 1].k = "data" THEN t[i + 1].v ELSE -1

\* the token that ends the node starting at token i (0: the node is never ended)
NodeEnd(t, D, i) ==
    LET E == {j \in (i + 1)..Len(t) : D[j] = D[i] - 1} IN
    IF E = {} THEN 0 ELSE CHOOSE j \in E : \A k \in E : j <= k

\* the node that encloses the node starting at token i (0: none)
Parent(t, D, i) ==
    LET P == {j \in Starts(t) : j < i /\ D[j] = D[i] - 1} IN
    IF P = {} THEN 0 ELSE CHOOSE j \in P : \A k \in P : k <= j

\* the data bytes between a node's type byte and its first child or its end
NodeData(t, i) ==
    LET stops == {j \in (i + 2)..Len(t) : t[j].k # "data"}
        stop == IF stops = {} THEN Len(t) + 1
                ELSE CHOOSE j \in stops : \A k \in stops : j <= k
    IN  [k \in 1..(stop - i - 2) |-> t[i + 1 + k].v]

\* the node starting at token i has no body
IsEmptyNode(t, i) == i + 2 <= Len(t) /\ t[i + 2].k = "end"

RECURSIVE SortedSeq(_)
SortedSeq(S) ==
    IF S = {} THEN <<>>
    ELSE LET m == CHOOSE x \in S : \A y \in S : x <= y IN
         <<m>> \o SortedSeq(S \ {m})

\* the children of the node starting at token i, in stream order
Children(t, D, i) == SortedSeq({j \in Starts(t) : j > i /\ Parent(t, D, j) = i})

Field(d, from, to) == IF Len(d) >= to THEN SubSeq(d, from, to) ELSE <<>>

\* what a reader gets from a Tile node, from a Tile-Area node, from the stream
DecodedTile(t, D, i) ==
    LET d == NodeData(t, i)
        c == Children(t, D, i)
    IN  [xOffset |-> LEValue(Field(d, 1, 1)),
         yOffset |-> LEValue(Field(d, 2, 2)),
         attr |-> LEValue(Field(d, 3, 3)),
         groundId |-> LEValue(Field(d, 4, 5)),
         len |-> Len(d),
         itemTypes |-> [k \in 1..Len(c) |-> NodeType(t, c[k])],
         items |-> [k \in 1..Len(c) |-> LEValue(NodeData(t, c[k]))]]

DecodedArea(t, D, i) ==
    LET d == NodeData(t, i)
        c == Children(t, D, i)
    IN  [baseX |-> LEValue(Field(d, 1, 2)),
         baseY |-> LEValue(Field(d, 3, 4)),
         z |-> LEValue(Field(d, 5, 5)),
         len |-> Len(d),
         tileTypes |-> [k \in 1..Len(c) |-> NodeType(t, c[k])],
         tiles |-> [k \in 1..Len(c) |-> DecodedTile(t, D, c[k])]]

DecodedAreas(t) ==
    LET D == Depths(t)
        A == SortedSeq({i \in Starts(t) : NodeType(t, i) = 4})
    IN  [k \in 1..Len(A) |-> DecodedArea(t, D, A[k])]

Generated == ret.op = "generate"

---------------------------------------------------------------------------
(* C2                                                                      *)

\* C2: in the bytes generate() returns, counting unescaped bytes only, no
\* prefix holds more end markers than start markers, and the whole stream
\* holds as many of the one as of the other.
C2_MarkersBalanced ==
    Generated =>
        LET t == Tokens(ret.data)
            D == Depths(t)
        IN  /\ \A i \in 0..Len(t) : D[i] >= 0
            /\ D[Len(t)] = 0
            /\ Cardinality(Starts(t)) = Cardinality({i \in 1..Len(t) : t[i].k = "end"})
            /\ ~DanglingEscape(ret.data)

\* a generated stream whose payload holds escaped 0xFF and 0xFE bytes
C2_Witness ==
    /\ Generated
    /\ Len(writer.tiles) >= 2
    /\ \E i \in 1..Len(writer.tiles) : writer.tiles[i].groundId = 65535
    /\ \E i \in 2..Len(ret.data) : ret.data[i - 1] = 253 /\ ret.data[i] = 255
    /\ \E i \in 2..Len(ret.data) : ret.data[i - 1] = 253 /\ ret.data[i] = 254

---------------------------------------------------------------------------
(* C3                                                                      *)

\* C3: the stream starts with the raw bytes 'O' 'T' 'B' 'M', 0xFE, 0x01; then
\* come u32 otbmVersion, u16 width, u16 height, u32 OTB major, u32 OTB minor
\* (a u16 field holds its value's low 16 bits); then the Map-Data node opens,
\* inside the root node; the stream ends with the end marker of Map-Data
\* followed by the end marker of the root node.
C3_RootLayout ==
    Generated =>
        LET b == ret.data
            t == Tokens(b)
            D == Depths(t)
            h == NodeData(t, 5)
            n == Len(t)
        IN  /\ SubSeq(b, 1, 6) = <<79, 84, 66, 77, 254, 1>>
            /\ t[5].k = "start" /\ NodeType(t, 5) = 1 /\ Parent(t, D, 5) = 0
            /\ Len(h) = 16
            /\ LEValue(SubSeq(h, 1, 4)) = writer.otbmVersion
            /\ LEValue(SubSeq(h, 5, 6)) = writer.width % 65536
            /\ LEValue(SubSeq(h, 7, 8)) = writer.height % 65536
            /\ LEValue(SubSeq(h, 9, 12)) = writer.otbMajorVersion
            /\ LEValue(SubSeq(h, 13, 16)) = writer.otbMinorVersion
            /\ t[23].k = "start" /\ NodeType(t, 23) = 2 /\ Parent(t, D, 23) = 5
            /\ Starts(t) \ {5} = {i \in Starts(t) : i >= 23}
            /\ NodeEnd(t, D, 23) = n - 1
            /\ NodeEnd(t, D, 5) = n
            /\ b[Len(b)] = 255 /\ b[Len(b) - 1] = 255

\* generated with a width and a height that differ and need escaping
C3_Witness ==
    /\ Generated
    /\ writer.width = 65279 /\ writer.height = 65535
    /\ Len(writer.tiles) >= 1
    /\ Len(ret.data) > Len(Tokens(ret.data))

---------------------------------------------------------------------------
(* C4                                                                      *)

\* C4: the children of the Map-Data node are the Tile-Area nodes, then one
\* empty Towns node, then one empty Waypoints node if and only if
\* otbmVersion >= 2; no Tile-Area node starts after the Towns node.
C4_TownsWaypoints ==
    Generated =>
        LET t == Tokens(ret.data)
            D == Depths(t)
            c == Children(t, D, 23)
            n == Len(c)
            tail == IF writer.otbmVersion >= 2 THEN 2 ELSE 1
            towns == c[n - tail + 1]
        IN  /\ n >= tail
            /\ NodeType(t, towns) = 12 /\ IsEmptyNode(t, towns)
            /\ writer.otbmVersion >= 2 =>
                   NodeType(t, c[n]) = 15 /\ IsEmptyNode(t, c[n])
            /\ \A k \in 1..(n - tail) : NodeType(t, c[k]) = 4
            /\ \A i \in Starts(t) :
                   /\ NodeType(t, i) = 4 => i < towns
                   /\ NodeType(t, i) = 12 => i = towns
                   /\ NodeType(t, i) = 15 => (writer.otbmVersion >= 2 /\ i = c[n])
            /\ NodeEnd(t, D, c[n]) = NodeEnd(t, D, 23) - 1

\* generated with tile areas, once for a version below 2 and once for version 2
C4_Witness ==
    /\ Generated
    /\ Len(ret.areas) >= 2
    /\ writer.otbmVersion = 2

C4_WitnessV1 ==
    /\ Generated
    /\ Len(ret.areas) >= 2
    /\ writer.otbmVersion = 1

---------------------------------------------------------------------------
(* C5                                                                      *)

InU16(c) == c >= 0 /\ c <= 65535

\* the places <<k, m>> of a sequence of areas: tile m of area k
Placements(A) == UNION {{<<k, m>> : m \in 1..Len(A[k].tiles)} : k \in 1..Len(A)}

\* the Tile node at place pm of the decoded areas A is the node of `tile`
IsNodeOf(A, pm, tile) ==
    LET a == A[pm[1]]
        d == a.tiles[pm[2]]
    IN  /\ a.len = 5 /\ a.tileTypes[pm[2]] = 5
        /\ a.baseX = tile.x - (tile.x % 256)
        /\ a.baseY = tile.y - (tile.y % 256)
        /\ a.z = tile.z
        /\ d.len = 5
        /\ d.xOffset = tile.x - a.baseX /\ d.xOffset \in 0..255
        /\ d.yOffset = tile.y - a.baseY /\ d.yOffset \in 0..255
        /\ a.baseX + d.xOffset = tile.x /\ a.baseY + d.yOffset = tile.y
        /\ d.attr = 9
        /\ d.groundId = tile.groundId
        /\ Len(d.items) = Len(tile.items)
        /\ \A k \in 1..Len(d.items) :
               d.itemTypes[k] = 6 /\ d.items[k] = tile.items[k]

\* C5: the stream holds one Tile node per tile added; a tile with x and y in
\* 0..65535 has a Tile node of its own, in a Tile-Area node that records
\* baseX = x - x mod 256, baseY = y - y mod 256 and the tile's z; the Tile node
\* records the offsets x - baseX and y - baseY, both in 0..255, then the
\* attribute byte 9 and the u16 ground id, then one Item node (type 6) with
\* the u16 id of each extra item, in order.
C5_TileEncoding ==
    Generated =>
        LET A == DecodedAreas(Tokens(ret.data))
            P == Placements(A)
            tiles == writer.tiles
        IN  /\ Cardinality(P) = Len(tiles)
            /\ \A i \in 1..Len(tiles) :
                   (InU16(tiles[i].x) /\ InU16(tiles[i].y)) =>
                       Cardinality({pm \in P : IsNodeOf(A, pm, tiles[i])})
                           >= Cardinality({j \in 1..Len(tiles) : tiles[j] = tiles[i]})

\* generated with the tile of the last map cell (its offsets are 255, its
\* bases 65280, its items two) and a tile off the cell grid's origin
C5_Witness ==
    /\ Generated
    /\ \E i, j \in 1..Len(writer.tiles) :
           /\ writer.tiles[i].x = 65535 /\ Len(writer.tiles[i].items) = 2
           /\ writer.tiles[j].x = 255 /\ writer.tiles[j].y = 511

---------------------------------------------------------------------------
(* C6                                                                      *)

\* a coordinate cut down to its 256-cell, as a u16
Trunc(c) == (c % 65536) - ((c % 65536) % 256)

CountIn(seq, v) == Cardinality({i \in 1..Len(seq) : seq[i] = v})

RECURSIVE CountInAreas(_, _, _)
CountInAreas(areas, k, v) ==
    IF k > Len(areas) THEN 0
    ELSE CountIn(areas[k].tiles, v) + CountInAreas(areas, k + 1, v)

\* C6: in the grouping built by _writeMapData every areaX and areaY is a
\* multiple of 256, no two areas have the same (areaX, areaY, z), every tile
\* of an area has that area's truncated x, truncated y and z, and every tile
\* added is in the areas as often as it was added: none dropped, none twice.
C6_AreaPartition ==
    Generated =>
        LET areas == ret.areas
            tiles == writer.tiles
        IN  /\ \A k \in 1..Len(areas) :
                   /\ areas[k].areaX % 256 = 0
                   /\ areas[k].areaY % 256 = 0
                   /\ Len(areas[k].tiles) >= 1
                   /\ \A m \in 1..Len(areas[k].tiles) :
                          /\ areas[k].areaX = Trunc(areas[k].tiles[m].x)
                          /\ areas[k].areaY = Trunc(areas[k].tiles[m].y)
                          /\ areas[k].z = areas[k].tiles[m].z
            /\ \A k1, k2 \in 1..Len(areas) :
                   k1 # k2 =>
                       <<areas[k1].areaX, areas[k1].areaY, areas[k1].z>>
                           # <<areas[k2].areaX, areas[k2].areaY, areas[k2].z>>
            /\ Cardinality(Placements(areas)) = Len(tiles)
            /\ \A i \in 1..Len(tiles) :
                   CountInAreas(areas, 1, tiles[i]) = CountIn(tiles, tiles[i])

\* grouped: two tiles of one cell on different floors, and a tile added twice
C6_Witness ==
    /\ Generated
    /\ Len(ret.areas) = 2
    /\ ret.areas[1].areaX = ret.areas[2].areaX
    /\ ret.areas[1].areaY = ret.areas[2].areaY
    /\ ret.areas[1].z # ret.areas[2].z
    /\ Len(ret.areas[1].tiles) = 2
    /\ ret.areas[1].tiles[1] = ret.areas[1].tiles[2]

---------------------------------------------------------------------------
(* C7                                                                      *)

TKey(tile) == <<Trunc(tile.x), Trunc(tile.y), tile.z>>

\* what a reader must find for a tile, and for the whole tile list
ExpectedTile(tile) ==
    [xOffset |-> tile.x % 256,
     yOffset |-> tile.y % 256,
     attr |-> 9,
     groundId |-> tile.groundId % 65536,
     len |-> 5,
     itemTypes |-> [k \in 1..Len(tile.items) |-> 6],
     items |-> [k \in 1..Len(tile.items) |-> tile.items[k] % 65536]]

ExpectedAreas(tiles) ==
    LET n == Len(tiles)
        F == SortedSeq({i \in 1..n :
                            \A j \in 1..(i - 1) : TKey(tiles[j]) # TKey(tiles[i])})
    IN  [k \in 1..Len(F) |->
            LET key == TKey(tiles[F[k]])
                idx == SortedSeq({i \in 1..n : TKey(tiles[i]) = key})
            IN  [baseX |-> key[1], baseY |-> key[2], z |-> key[3] % 256,
                 len |-> 5,
                 tileTypes |-> [m \in 1..Len(idx) |-> 5],
                 tiles |-> [m \in 1..Len(idx) |-> ExpectedTile(tiles[idx[m]])]]]

\* C7: the Tile-Area nodes are in the stream in the order in which their
\* (baseX, baseY, z) key first occurs in the tile list, and the Tile nodes of
\* each are in the order in which the tiles were added.
C7_StableGrouping ==
    Generated => DecodedAreas(Tokens(ret.data)) = ExpectedAreas(writer.tiles)

\* generated from three different tiles, the first and the third of one area
\* and the second of another
C7_Witness ==
    /\ Generated
    /\ Len(writer.tiles) = 3
    /\ TKey(writer.tiles[1]) = TKey(writer.tiles[3])
    /\ TKey(writer.tiles[1]) # TKey(writer.tiles[2])
    /\ writer.tiles[1] # writer.tiles[3]

---------------------------------------------------------------------------
(* PNGToOTBMApp: loading an image and analysing its colours.  Both copies  *)
(* of the application (src/app.js and src/unnamed/part_000) are modelled;  *)
(* `variant` says which one runs.                                          *)

MAX_COLORS == 256

MAX_DIMENSION(v) == IF v = "part_000" THEN 4500 ELSE 2048

MAX_TOTAL_PIXELS(v) == IF v = "part_000" THEN 13500000 ELSE 4194304

\* Mutant: only the sides are checked, not the number of pixels.
_checkImageComplexity_SidesOnly(v, width, height) ==
    IF width > MAX_DIMENSION(v) \/ height > MAX_DIMENSION(v)
    THEN [valid |-> FALSE, error |-> "Image too large"]
    ELSE [valid |-> TRUE, error |-> Null]

_checkImageComplexity(v, width, height) ==
    LET totalPixels == width * height IN
    IF width > MAX_DIMENSION(v) \/ height > MAX_DIMENSION(v)
    THEN [valid |-> FALSE, error |-> "Image too large"]
    ELSE IF totalPixels > MAX_TOTAL_PIXELS(v)
    THEN [valid |-> FALSE, error |-> "Image too complex"]
    ELSE [valid |-> TRUE, error |-> Null]

HexDigits == <<"0", "1", "2", "3", "4", "5", "6", "7", "8", "9",
               "a", "b", "c", "d", "e", "f">>

\* x.toString(16), for a byte x
ToString16(x) ==
    IF x < 16 THEN <<HexDigits[x + 1]>>
    ELSE <<HexDigits[(x \div 16) + 1], HexDigits[(x % 16) + 1]>>

\* s.padStart(2, '0')
PadStart2(s) == IF Len(s) < 2 THEN <<"0">> \o s ELSE s

_rgbToHex(r, g, b) ==
    <<"#">> \o PadStart2(ToString16(r)) \o PadStart2(ToString16(g))
            \o PadStart2(ToString16(b))

\* parseInt(c, 16) of one hexadecimal digit
HexDigitValue(c) == (CHOOSE d \in 1..16 : HexDigits[d] = c) - 1

\* parseInt(s, 16) of a two-digit group
ParseHex2(s) == HexDigitValue(s[1]) * 16 + HexDigitValue(s[2])

_hexToRgb(hex) ==
    LET digits == IF Len(hex) > 0 /\ hex[1] = "#"
                  THEN SubSeq(hex, 2, Len(hex)) ELSE hex
        result == /\ Len(digits) = 6
                  /\ \A j \in 1..6 : \E d \in 1..16 : HexDigits[d] = digits[j]
    IN  IF result
        THEN [r |-> ParseHex2(SubSeq(digits, 1, 2)),
              g |-> ParseHex2(SubSeq(digits, 3, 4)),
              b |-> ParseHex2(SubSeq(digits, 5, 6))]
        ELSE [r |-> 0, g |-> 0, b |-> 0]

---------------------------------------------------------------------------
(* Images.  An Image object is its width, its height and its picture: the  *)
(* pixels of `lead`, then `ramp` opaque pixels of pairwise distinct        *)
(* colours, then `fill` to the end, in row-major order.                    *)

RampColour(k) == <<k % 256, (k \div 256) * 16, 7, 255 - (k % 2) * 127>>

PixelOf(img, p) ==
    IF p < Len(img.lead) THEN img.lead[p + 1]
    ELSE IF p < Len(img.lead) + img.ramp THEN RampColour(p - Len(img.lead))
    ELSE img.fill

\* tempCtx.drawImage(image, 0, 0); tempCtx.getImageData(0, 0, width, height):
\* four bytes R, G, B, A for each pixel
getImageData(img) ==
    [width |-> img.width, height |-> img.height,
     data |-> [j \in 1..(4 * img.width * img.height) |->
                  PixelOf(img, (j - 1) \div 4)[((j - 1) % 4) + 1]]]

---------------------------------------------------------------------------
(* _analyzeColors.  The loop state is the local Map colorCounts, the local *)
(* transparentCount, whether the loop has returned from the function, and  *)
(* `read`: how many pixels of the buffer the loop has read so far.         *)

ScanStart ==
    [colorCounts |-> NewMap, transparentCount |-> 0, returned |-> FALSE, read |-> 0]

\* Mutant: an image with exactly MAX_COLORS colours is rejected.
TooManyColors_AtLimit(colorCounts) == MapSize(colorCounts) >= MAX_COLORS

\* colorCounts.size > MAX_COLORS
TooManyColors(colorCounts) == MapSize(colorCounts) > MAX_COLORS

\* Mutant: a transparent pixel is counted and then treated as an opaque one.
ScanPixel_NoContinue(st, pixels, p) ==
    LET i == 4 * p
        r == pixels[i + 1]
        g == pixels[i + 2]
        b == pixels[i + 3]
        a == pixels[i + 4]
        hex == _rgbToHex(r, g, b)
        old == IF MapHas(st.colorCounts, hex) THEN st.colorCounts.val[hex] ELSE 0
        counted == MapSet(st.colorCounts, hex, old + 1)
    IN  [colorCounts |-> counted,
         transparentCount |-> st.transparentCount + (IF a < 128 THEN 1 ELSE 0),
         returned |-> TooManyColors(counted),
         read |-> p + 1]

\* One iteration of the loop, for the pixel at byte offset i = 4 * p.
ScanPixel(st, pixels, p) ==
    LET i == 4 * p
        r == pixels[i + 1]
        g == pixels[i + 2]
        b == pixels[i + 3]
        a == pixels[i + 4]
        hex == _rgbToHex(r, g, b)
        old == IF MapHas(st.colorCounts, hex) THEN st.colorCounts.val[hex] ELSE 0
        counted == MapSet(st.colorCounts, hex, old + 1)
    IN  IF a < 128
        THEN [st EXCEPT !.transparentCount = @ + 1, !.read = p + 1]
        ELSE [colorCounts |-> counted,
              transparentCount |-> st.transparentCount,
              returned |-> TooManyColors(counted),
              read |-> p + 1]

\* The iterations for pixels lo..hi, in order; none runs after the return.
RECURSIVE ScanPixels(_, _, _, _)
ScanPixels(st, pixels, lo, hi) ==
    IF lo > hi \/ st.returned THEN st
    ELSE IF lo = hi THEN ScanPixel(st, pixels, lo)
    ELSE LET mid == (lo + hi) \div 2 IN
         ScanPixels(ScanPixels(st, pixels, lo, mid), pixels, mid + 1, hi)

\* entries.sort((a, b) => b[1] - a[1]): by count, largest first; equal counts
\* keep their order (Array.prototype.sort is stable)
RECURSIVE SortByCountFrom(_, _)
SortByCountFrom(entries, counts) ==
    IF counts = {} THEN <<>>
    ELSE LET top == CHOOSE c \in counts : \A d \in counts : d <= c
             IsTop(e) == e[2] = top
         IN  SelectSeq(entries, IsTop) \o SortByCountFrom(entries, counts \ {top})

\* Mutant: colours with equal counts come out in the reverse of their order.
SortByCount_TiesReversed(entries) ==
    LET n == Len(entries)
        reversed == [j \in 1..n |-> entries[n + 1 - j]]
    IN  SortByCountFrom(reversed, {entries[j][2] : j \in 1..n})

SortByCount(entries) ==
    SortByCountFrom(entries, {entries[j][2] : j \in 1..Len(entries)})

\* localStorage 'pngToOtbmColorMappings' holds the members of a JSON object,
\* each a pair <<hex, tileId>>.  _loadColorMappings() parses it into a Map.
_loadColorMappings(saved) ==
    IF Len(saved) = 0 THEN <<>>
    ELSE [hex \in {saved[j][1] : j \in 1..Len(saved)} |->
             saved[CHOOSE j \in 1..Len(saved) : saved[j][1] = hex][2]]

\* _saveColorMappings(): the colours with a tile id above 0, in palette order
_saveColorMappings(mappings) ==
    LET entries == MapEntries(mappings)
        Assigned(e) == e[2].tileId > 0
        kept == SelectSeq(entries, Assigned)
    IN  [j \in 1..Len(kept) |-> <<kept[j][1], kept[j][2].tileId>>]

\* Mutant: every entry starts with tile id 0, nothing is restored.
StoreMappings_NoRestore(v, saved, sortedColors) ==
    [keys |-> [j \in 1..Len(sortedColors) |-> sortedColors[j][1]],
     val |-> IF Len(sortedColors) = 0 THEN <<>>
             ELSE [hex \in {sortedColors[j][1] : j \in 1..Len(sortedColors)} |->
                      LET j == CHOOSE k \in 1..Len(sortedColors) :
                                   sortedColors[k][1] = hex
                      IN  [hex |-> hex, rgb |-> _hexToRgb(hex), tileId |-> 0,
                           count |-> sortedColors[j][2]]]]

\* The Map filled from sortedColors, whose keys are pairwise distinct.  Only
\* part_000 restores the tile id saved for a colour.
StoreMappings(v, saved, sortedColors) ==
    LET savedMappingsMap == _loadColorMappings(saved)
        savedTileId(hex) ==
            IF v = "part_000" /\ hex \in DOMAIN savedMappingsMap
            THEN savedMappingsMap[hex] ELSE 0
    IN  [keys |-> [j \in 1..Len(sortedColors) |-> sortedColors[j][1]],
         val |-> IF Len(sortedColors) = 0 THEN <<>>
                 ELSE [hex \in {sortedColors[j][1] : j \in 1..Len(sortedColors)} |->
                          LET j == CHOOSE k \in 1..Len(sortedColors) :
                                       sortedColors[k][1] = hex
                          IN  [hex |-> hex, rgb |-> _hexToRgb(hex),
                               tileId |-> savedTileId(hex),
                               count |-> sortedColors[j][2]]]]

\* Mutant: the error path empties the palette but keeps the previous image.
RejectImage_KeepImage(app) ==
    [app EXCEPT !.colorMappings = NewMap]

\* Mutant: the error path leaves the palette of the previous image in place.
RejectImage_KeepPalette(app) ==
    [app EXCEPT !.image = Null, !.imageData = Null]

\* The error path of the size check and of the colour limit.
RejectImage(app) ==
    [app EXCEPT !.image = Null, !.imageData = Null, !.colorMappings = NewMap]

\* _analyzeColors() on the application object `app`: the object afterwards,
\* what the call returned and how many pixels it read.
_analyzeColors(v, app, saved) ==
    IF app.image = Null
    THEN [app |-> app, result |-> "null", read |-> 0]
    ELSE LET data == getImageData(app.image)
             pixels == data.data
             st == ScanPixels(ScanStart, pixels, 0, (Len(pixels) \div 4) - 1)
             withData == [app EXCEPT !.imageData = data]
         IN  IF st.returned
             THEN [app |-> RejectImage(withData), result |-> "overflow",
                   read |-> st.read]
             ELSE [app |-> [withData EXCEPT
                              !.colorMappings =
                                  StoreMappings(v, saved,
                                      SortByCount(MapEntries(st.colorCounts))),
                              !.transparentPixelCount = st.transparentCount],
                   result |-> "success", read |-> st.read]

\* Mutant: the handler stores the image and leaves the analysis for later.
imgOnload_AnalysisLater(v, app, saved, img) ==
    IF ~_checkImageComplexity(v, img.width, img.height).valid
    THEN [app |-> RejectImage(app), result |-> "tooLarge", read |-> 0]
    ELSE [app |-> [app EXCEPT !.image = img], result |-> "success", read |-> 0]

\* img.onload of _loadImage, for the decoded image img
imgOnload(v, app, saved, img) ==
    IF ~_checkImageComplexity(v, img.width, img.height).valid
    THEN [app |-> RejectImage(app), result |-> "tooLarge", read |-> 0]
    ELSE _analyzeColors(v, [app EXCEPT !.image = img], saved)

---------------------------------------------------------------------------
(* The application object and its handlers                                 *)

App ==
    [image |-> image, imageData |-> imageData, colorMappings |-> colorMappings,
     transparentPixelCount |-> transparentPixelCount]

\* Pixels tried: opaque red, red at the alpha threshold, red just below it,
\* and an opaque blue whose channels need zero padding.
Red == <<255, 0, 0, 255>>
RedAt128 == <<255, 0, 0, 128>>
RedAt127 == <<255, 0, 0, 127>>
Blue == <<0, 16, 255, 255>>

PixelArgs == {Red, RedAt128, RedAt127, Blue}

Picture(width, height, lead, ramp, fill) ==
    [width |-> width, height |-> height, lead |-> lead, ramp |-> ramp,
     fill |-> fill]

\* Images of one, two and three pixels.
SmallImages ==
    {Picture(1, 1, <<p>>, 0, Red) : p \in PixelArgs}
        \cup {Picture(2, 1, <<p, q>>, 0, Red) : p \in PixelArgs, q \in PixelArgs}
        \cup {Picture(1, 2, <<Red, Blue>>, 0, Red),
              Picture(3, 1, <<Blue, Red, RedAt128>>, 0, Red),
              Picture(1, 3, <<RedAt127, Blue, RedAt127>>, 0, Red)}

\* 260 pixels: a transparent one, red, 255 more colours, one of them repeated.
Image256 == Picture(26, 10, <<RedAt127, Red>>, 255, RampColour(5))

\* 260 pixels: a transparent one, red, 256 more colours, then two blue pixels.
Image257 == Picture(130, 2, <<RedAt127, Red>>, 256, Blue)

\* Images over the size limits of both variants.
LargeImages ==
    {Picture(4501, 1, <<>>, 0, Red), Picture(1, 4501, <<>>, 0, Blue),
     Picture(4500, 3001, <<>>, 300, Red)}

ImageArgs == SmallImages \cup {Image256, Image257} \cup LargeImages

\* parseInt(e.target.value) of the values typed into a tile id field: NaN for
\* an empty field, or a number.
NaN == [isNaN |-> TRUE, n |-> 0]
Number(n) == [isNaN |-> FALSE, n |-> n]

ValueArgs == {NaN, Number(5), Number(70000)}

\* The rows whose tile id field is edited.
RowArgs == {_rgbToHex(255, 0, 0), _rgbToHex(0, 16, 255)}

Min(a, b) == IF a < b THEN a ELSE b
Max(a, b) == IF a > b THEN a ELSE b

InitApp ==
    /\ writer = constructor(1, 1, <<>>, 2, 2, 7)
    /\ ret = NoReturn
    /\ payload = <<>>
    /\ probe = 0
    /\ variant \in {"app.js", "part_000"}
    /\ savedMappings = <<>>
    /\ AppConstructed

\* img.onload: `hadPalette` says whether the palette held colours when the
\* handler started.
ImgOnloadOf(images) ==
    \E img \in images :
        \E r \in {imgOnload(variant, App, savedMappings, img)} :
        /\ image' = r.app.image
        /\ imageData' = r.app.imageData
        /\ colorMappings' = r.app.colorMappings
        /\ transparentPixelCount' = r.app.transparentPixelCount
        /\ ret' = [op |-> "onload", img |-> img, result |-> r.result,
                   read |-> r.read, hadPalette |-> MapSize(colorMappings) > 0]
        /\ UNCHANGED <<variant, savedMappings>>
        /\ UNCHANGED <<writerVars, pending>>

ImgOnload == ImgOnloadOf(ImageArgs)

\* The 'change' handler of a row's tile id field (_createColorRow); the row
\* exists while its colour is in the palette.  Only part_000 saves.
ChangeTileIdOf(edits) ==
    \E edit \in edits :
        LET hex == edit[1]
            parsed == edit[2]
            value == IF parsed.isNaN \/ parsed.n = 0 THEN 0 ELSE parsed.n
            tileId == Max(0, Min(65535, value))
            edited == [colorMappings EXCEPT !.val[hex].tileId = tileId]
        IN  /\ MapHas(colorMappings, hex)
            /\ colorMappings' = edited
            /\ savedMappings' = IF variant = "part_000"
                                THEN _saveColorMappings(edited)
                                ELSE savedMappings
            /\ ret' = [op |-> "change", hex |-> hex, tileId |-> tileId]
            /\ UNCHANGED <<variant, image, imageData, transparentPixelCount>>
            /\ UNCHANGED <<writerVars, pending>>

ChangeTileId == ChangeTileIdOf(RowArgs \X ValueArgs)

NextApp == ImgOnload \/ ChangeTileId

SpecApp == InitApp /\ [][NextApp]_vars

---------------------------------------------------------------------------
(* Reading a pixel buffer directly: pixel p (from 1) of buffer d, its      *)
(* alpha, its RGB key.                                                     *)

PixelCount(d) == Len(d.data) \div 4

AlphaOf(d, p) == d.data[4 * (p - 1) + 4]

KeyOf(d, p) == <<d.data[4 * (p - 1) + 1], d.data[4 * (p - 1) + 2],
                 d.data[4 * (p - 1) + 3]>>

IsOpaque(d, p) == AlphaOf(d, p) >= 128

\* the distinct RGB keys among the opaque pixels 1..n
OpaqueKeys(d, n) == {KeyOf(d, p) : p \in {q \in 1..n : IsOpaque(d, q)}}

RECURSIVE SumCounts(_, _, _)
SumCounts(entries, lo, hi) ==
    IF lo > hi THEN 0
    ELSE IF lo = hi THEN entries[lo][2].count
    ELSE LET mid == (lo + hi) \div 2 IN
         SumCounts(entries, lo, mid) + SumCounts(entries, mid + 1, hi)

Loaded(result) == ret.op = "onload" /\ ret.result = result

\* C8: after a successful _analyzeColors run the counts of the palette
\* entries and transparentPixelCount add up to width x height, every entry
\* has a count of at least 1, and each entry counts exactly the pixels of its
\* colour with alpha >= 128, so that no pixel with alpha < 128 contributes to
\* the palette.
C8_CountsAddUp ==
    Loaded("success") =>
        LET d == imageData
            n == PixelCount(d)
            entries == MapEntries(colorMappings)
            hexOf == [p \in 1..n |-> _rgbToHex(KeyOf(d, p)[1], KeyOf(d, p)[2],
                                               KeyOf(d, p)[3])]
        IN  /\ d = getImageData(ret.img)
            /\ n = image.width * image.height
            /\ SumCounts(entries, 1, Len(entries)) + transparentPixelCount = n
            /\ transparentPixelCount = Cardinality({p \in 1..n : ~IsOpaque(d, p)})
            /\ \A j \in 1..Len(entries) :
                   /\ entries[j][2].count >= 1
                   /\ entries[j][2].count =
                          Cardinality({p \in 1..n :
                                          IsOpaque(d, p) /\ hexOf[p] = entries[j][1]})

\* a palette of exactly MAX_COLORS colours, from an image that also has a
\* transparent pixel and a colour seen more than once
C8_Witness ==
    /\ Loaded("success")
    /\ MapSize(colorMappings) = MAX_COLORS
    /\ transparentPixelCount > 0
    /\ \E j \in 1..MapSize(colorMappings) :
           colorMappings.val[colorMappings.keys[j]].count > 1

\* C9: when loading an image fails, in the size check or because the image
\* has more than 256 distinct opaque colours, the application is left with
\* image = null, imageData = null and an empty palette, also when a palette
\* from an earlier image was in place.
C9_FailureClearsState ==
    (Loaded("tooLarge") \/ Loaded("overflow")) =>
        /\ image = Null
        /\ imageData = Null
        /\ MapSize(colorMappings) = 0
        /\ colorMappings = NewMap

\* the colour limit is exceeded while the palette of an earlier image is shown
C9_Witness ==
    /\ Loaded("overflow")
    /\ ret.hadPalette
    /\ colorMappings = NewMap

\* C10: _analyzeColors succeeds exactly when the buffer has at most 256
\* distinct opaque RGB keys; otherwise it fails at the pixel that brings the
\* 257th key, and reads no pixel after it.
C10_LimitAt257th ==
    (Loaded("success") \/ Loaded("overflow")) =>
        LET d == getImageData(ret.img)
            n == PixelCount(d)
            distinct == Cardinality(OpaqueKeys(d, n))
        IN  /\ Loaded("success") <=> distinct <= 256
            /\ Loaded("success") => ret.read = n
            /\ Loaded("overflow") =>
                   /\ ret.read \in 1..n
                   /\ Cardinality(OpaqueKeys(d, ret.read)) = 257
                   /\ Cardinality(OpaqueKeys(d, ret.read - 1)) = 256

\* the limit is exceeded before the end of the buffer
C10_Witness ==
    /\ Loaded("overflow")
    /\ ret.read < ret.img.width * ret.img.height

\* C11: after a successful analysis the palette is in order of descending
\* count, and of two colours with the same count the one that appears first
\* in the row-major scan comes first.  The buffer alone fixes this order, so
\* analysing the same buffer again gives the same order.
C11_PaletteOrder ==
    Loaded("success") =>
        LET d == imageData
            n == PixelCount(d)
            keys == colorMappings.keys
            count == [j \in 1..Len(keys) |-> colorMappings.val[keys[j]].count]
            hexOf == [p \in 1..n |-> _rgbToHex(KeyOf(d, p)[1], KeyOf(d, p)[2],
                                               KeyOf(d, p)[3])]
            Shows(p, hex) == IsOpaque(d, p) /\ hexOf[p] = hex
        IN  \A j \in 1..(Len(keys) - 1) :
                \/ count[j] > count[j + 1]
                \/ /\ count[j] = count[j + 1]
                   /\ \E p \in 1..n :
                          /\ Shows(p, keys[j])
                          /\ \A q \in 1..p : ~Shows(q, keys[j + 1])

\* the sort moves a colour forward, past colours that tie with each other
C11_Witness ==
    /\ Loaded("success")
    /\ MapSize(colorMappings) >= 3
    /\ colorMappings.keys[1] = _rgbToHex(5, 0, 7)
    /\ colorMappings.val[colorMappings.keys[2]].count
           = colorMappings.val[colorMappings.keys[3]].count

---------------------------------------------------------------------------
(* clients-data.js.  Of the 33 clients of CLIENT_DATA the model keeps four, *)
(* one for each OTBM version and the last one, with the OTB versions they   *)
(* name; `units` is the client's name as UTF-16 code units.                 *)

CLIENT_DATA ==
    [otbVersions |->
         ("7.40" :> [version |-> 1, id |-> 1])
             @@ ("8.00" :> [version |-> 2, id |-> 7])
             @@ ("8.40" :> [version |-> 3, id |-> 12])
             @@ ("13.10" :> [version |-> 3, id |-> 65]),
     clients |->
         << [name |-> "7.4", units |-> <<55, 46, 52>>, otb |-> "7.40",
             otbmVersion |-> 1],
            [name |-> "8.00", units |-> <<56, 46, 48, 48>>, otb |-> "8.00",
             otbmVersion |-> 2],
            [name |-> "8.40", units |-> <<56, 46, 52, 48>>, otb |-> "8.40",
             otbmVersion |-> 3],
            [name |-> "13.10", units |-> <<49, 51, 46, 49, 48>>, otb |-> "13.10",
             otbmVersion |-> 3] >>]

\* CLIENT_DATA.clients.find(c => c.name === clientName) || null
getClientConfig(clientName) ==
    LET clients == CLIENT_DATA.clients
        found == {j \in 1..Len(clients) : clients[j].name = clientName}
    IN  IF found = {} THEN Null
        ELSE clients[CHOOSE j \in found : \A k \in found : j <= k]

\* CLIENT_DATA.otbVersions[otbName] || null
getOTBVersion(otbName) ==
    IF otbName \in DOMAIN CLIENT_DATA.otbVersions
    THEN CLIENT_DATA.otbVersions[otbName]
    ELSE Null

\* `PNG to OTBM Converted Map (${clientConfig.name})`
MapDescription(clientConfig) ==
    <<80, 78, 71, 32, 116, 111, 32, 79, 84, 66, 77, 32, 67, 111, 110, 118, 101,
      114, 116, 101, 100, 32, 77, 97, 112, 32, 40>> \o clientConfig.units \o <<41>>

---------------------------------------------------------------------------
(* _generateOTBM.  `form` holds parseInt() of the settings fields (NaN or a *)
(* number) and the selected client name; `proceed` is the answer confirm()  *)
(* gives when the warning about ids 0 is shown.                             *)

\* parseInt(field.value) || fallback
ParsedOr(parsed, fallback) ==
    IF parsed.isNaN \/ parsed.n = 0 THEN fallback ELSE parsed.n

\* Math.max(0, Math.min(15, parseInt(this.zLevel.value) || 7))
ZLevel(parsed) == Max(0, Min(15, ParsedOr(parsed, 7)))

\* Mutant: part_000 clamps the transparent tile id to one byte.
TransparentId_ByteClamp(v, parsed) ==
    IF v = "part_000" THEN Max(0, Min(255, ParsedOr(parsed, 0)))
    ELSE ParsedOr(parsed, 0)

\* Only part_000 clamps the transparent tile id and the offsets.
TransparentId(v, parsed) ==
    IF v = "part_000" THEN Max(0, Min(65535, ParsedOr(parsed, 0)))
    ELSE ParsedOr(parsed, 0)

Offset(v, parsed) ==
    IF v = "part_000" THEN Max(0, ParsedOr(parsed, 0)) ELSE ParsedOr(parsed, 0)

\* Mutant: the limit is one too low, and an image ending at 65535 is refused.
OffsetOverflows_AtLimit(v, offX, offY, width, height) ==
    v = "part_000" /\ (offX + width >= 65535 \/ offY + height >= 65535)

\* Only part_000 checks that offset + image size stays within 65535.
OffsetOverflows(v, offX, offY, width, height) ==
    v = "part_000" /\ (offX + width > 65535 \/ offY + height > 65535)

\* Mutant: every colour gets the tile id of the first palette entry.
ColorToTile_FirstId(mappings) ==
    [hex \in {k \in DOMAIN mappings.val : mappings.val[k].tileId > 0} |->
        mappings.val[mappings.keys[1]].tileId]

\* colorToTile: the colours with a tile id above 0
ColorToTile(mappings) ==
    [hex \in {k \in DOMAIN mappings.val : mappings.val[k].tileId > 0} |->
        mappings.val[hex].tileId]

\* Mutant: a pixel whose colour has no tile id still gets a tile, with id 0.
PixelTile_ZeroPlaced(pixels, width, colorToTile, transparentId, z, offX, offY, x, y) ==
    LET i == (y * width + x) * 4
        a == pixels[i + 4]
        hex == _rgbToHex(pixels[i + 1], pixels[i + 2], pixels[i + 3])
        tileId == IF hex \in DOMAIN colorToTile THEN colorToTile[hex] ELSE 0
    IN  <<[x |-> x + offX, y |-> y + offY, z |-> z,
           groundId |-> IF a < 128 THEN transparentId ELSE tileId,
           items |-> <<>>]>>

\* Mutant: the loop takes alpha 128 for transparent, unlike the analysis.
PixelTile_Alpha128Transparent(pixels, width, colorToTile, transparentId, z, offX, offY, x, y) ==
    LET i == (y * width + x) * 4
        a == pixels[i + 4]
        hex == _rgbToHex(pixels[i + 1], pixels[i + 2], pixels[i + 3])
    IN  IF a <= 128
        THEN IF transparentId > 0
             THEN <<[x |-> x + offX, y |-> y + offY, z |-> z,
                     groundId |-> transparentId, items |-> <<>>]>>
             ELSE <<>>
        ELSE IF hex \in DOMAIN colorToTile /\ colorToTile[hex] # 0
             THEN <<[x |-> x + offX, y |-> y + offY, z |-> z,
                     groundId |-> colorToTile[hex], items |-> <<>>]>>
             ELSE <<>>

\* The body of the pixel loop: the addTile calls made for pixel (x, y).
PixelTile(pixels, width, colorToTile, transparentId, z, offX, offY, x, y) ==
    LET i == (y * width + x) * 4
        a == pixels[i + 4]
        hex == _rgbToHex(pixels[i + 1], pixels[i + 2], pixels[i + 3])
    IN  IF a < 128
        THEN IF transparentId > 0
             THEN <<[x |-> x + offX, y |-> y + offY, z |-> z,
                     groundId |-> transparentId, items |-> <<>>]>>
             ELSE <<>>
        ELSE IF hex \in DOMAIN colorToTile /\ colorToTile[hex] # 0
             THEN <<[x |-> x + offX, y |-> y + offY, z |-> z,
                     groundId |-> colorToTile[hex], items |-> <<>>]>>
             ELSE <<>>

\* Mutant: the image is walked column by column.
RECURSIVE PixelLoop_ColumnMajor(_, _, _, _, _, _, _, _, _, _)
PixelLoop_ColumnMajor(pixels, width, height, colorToTile, transparentId, z, offX, offY, x, y) ==
    IF x >= width THEN <<>>
    ELSE IF y >= height
    THEN PixelLoop_ColumnMajor(pixels, width, height, colorToTile, transparentId,
                               z, offX, offY, x + 1, 0)
    ELSE PixelTile(pixels, width, colorToTile, transparentId, z, offX, offY, x, y)
             \o PixelLoop_ColumnMajor(pixels, width, height, colorToTile,
                                      transparentId, z, offX, offY, x, y + 1)

\* for (y ...) for (x ...): the addTile calls from pixel (x, y) on
RECURSIVE PixelLoop(_, _, _, _, _, _, _, _, _, _)
PixelLoop(pixels, width, height, colorToTile, transparentId, z, offX, offY, x, y) ==
    IF y >= height THEN <<>>
    ELSE IF x >= width
    THEN PixelLoop(pixels, width, height, colorToTile, transparentId, z, offX,
                   offY, 0, y + 1)
    ELSE PixelTile(pixels, width, colorToTile, transparentId, z, offX, offY, x, y)
             \o PixelLoop(pixels, width, height, colorToTile, transparentId, z,
                          offX, offY, x + 1, y)

\* writer.download(): generate() leaves its bytes in writer.buffer
download(w) == [w EXCEPT !.buffer = generate(w)]

\* Mutant: a missing client is replaced by the first one of the list.
CurrentClientConfig_Fallback(clientVersion) ==
    IF getClientConfig(clientVersion) = Null THEN CLIENT_DATA.clients[1]
    ELSE getClientConfig(clientVersion)

\* _getCurrentClientConfig()
CurrentClientConfig(clientVersion) == getClientConfig(clientVersion)

\* _generateOTBM() on the application object `app`: how it ended, the writer
\* it created (Null if none) and the bytes it handed to the download.
_generateOTBM(v, app, form, proceed) ==
    LET refused(outcome) == [outcome |-> outcome, writer |-> Null, data |-> <<>>]
        width == app.image.width
        height == app.image.height
        zeroIds == {k \in DOMAIN app.colorMappings.val :
                       app.colorMappings.val[k].tileId = 0}
        transparentId == TransparentId(v, form.transparentTileId)
        hasTransparentPixels == app.transparentPixelCount > 0
        z == ZLevel(form.zLevel)
        offX == Offset(v, form.offsetX)
        offY == Offset(v, form.offsetY)
        clientConfig == CurrentClientConfig(form.clientVersion)
        otbVersion == getOTBVersion(clientConfig.otb)
        created == constructor(width + offX, height + offY,
                               MapDescription(clientConfig),
                               clientConfig.otbmVersion, otbVersion.version,
                               otbVersion.id)
        filled == [created EXCEPT !.tiles =
                      PixelLoop(app.imageData.data, width, height,
                                ColorToTile(app.colorMappings), transparentId, z,
                                offX, offY, 0, 0)]
    IN  IF app.image = Null \/ app.imageData = Null THEN refused("noImage")
        ELSE IF /\ zeroIds # {} \/ (hasTransparentPixels /\ transparentId = 0)
                /\ ~proceed
        THEN refused("cancelled")
        ELSE IF OffsetOverflows(v, offX, offY, width, height) THEN refused("overflow")
        ELSE IF clientConfig = Null THEN refused("noClient")
        ELSE IF otbVersion = Null THEN refused("noOtb")
        ELSE [outcome |-> "downloaded", writer |-> download(filled),
              data |-> download(filled).buffer]

---------------------------------------------------------------------------
(* Conversions: images are loaded, tile ids edited and the Generate button *)
(* pressed, with the settings form filled in one of the ways of FormArgs.  *)

\* Images converted: one and two colours, with and without transparent
\* pixels, and one with transparent pixels only.
ConvImageArgs ==
    {Picture(1, 1, <<Red>>, 0, Red),
     Picture(3, 3, <<>>, 0, RedAt127),
     Picture(2, 2, <<Red, Blue, Blue, Red>>, 0, Red),
     Picture(2, 2, <<Red, RedAt127, Blue, RedAt128>>, 0, Red)}

\* The form as the page shows it first.  A <select> with no option selected
\* has the value "", which names no client.
DefaultForm ==
    [transparentTileId |-> NaN, zLevel |-> Number(7), offsetX |-> NaN,
     offsetY |-> NaN, clientVersion |-> "8.00"]

FormArgs ==
    {[DefaultForm EXCEPT !.transparentTileId = f[1], !.zLevel = f[2]] :
         f \in {<<NaN, Number(7)>>, <<NaN, Number(0)>>, <<Number(300), Number(0)>>,
                <<Number(300), Number(15)>>, <<Number(65536), Number(99)>>}}
    \cup {[DefaultForm EXCEPT !.transparentTileId = Number(300),
                              !.offsetX = f[1], !.offsetY = f[2]] :
              f \in {<<Number(255), NaN>>, <<Number(65534), NaN>>,
                     <<Number(65535), NaN>>, <<Number(-3), NaN>>,
                     <<NaN, Number(65535)>>}}
    \cup {[DefaultForm EXCEPT !.clientVersion = c] : c \in {"7.4", "13.10", ""}}

InitConv ==
    /\ writer = Null
    /\ ret = NoReturn
    /\ payload = <<>>
    /\ probe = 0
    /\ variant \in {"app.js", "part_000"}
    /\ savedMappings = <<>>
    /\ AppConstructed

ConvOnload == ImgOnloadOf(ConvImageArgs)

\* Tile ids typed in: 5 for red, 70000 for blue, and red's field emptied.
ConvEditArgs ==
    {<<_rgbToHex(255, 0, 0), Number(5)>>, <<_rgbToHex(0, 16, 255), Number(70000)>>,
     <<_rgbToHex(255, 0, 0), NaN>>}

ConvChangeTileId == ChangeTileIdOf(ConvEditArgs)

\* The click on the Generate button.  `writer` is the OTBMWriter the handler
\* created, Null if it returned before creating one.
GenerateOTBMOf(forms) ==
    \E form \in forms, proceed \in BOOLEAN :
        \E r \in {_generateOTBM(variant, App, form, proceed)} :
            /\ writer' = r.writer
            /\ ret' = [op |-> "_generateOTBM", form |-> form,
                       outcome |-> r.outcome, created |-> r.writer # Null,
                       tiles |-> IF r.writer = Null THEN <<>> ELSE r.writer.tiles,
                       data |-> r.data]
            /\ UNCHANGED <<payload, probe, pending>>
            /\ UNCHANGED appVars

GenerateOTBM == GenerateOTBMOf(FormArgs)

NextConv == ConvOnload \/ ConvChangeTileId \/ GenerateOTBM

SpecConv == InitConv /\ [][NextConv]_vars

---------------------------------------------------------------------------
(* C12 - C13: the tiles a conversion places                                *)

\* The last step was a conversion that reached the download.
Converted == ret.op = "_generateOTBM" /\ ret.outcome = "downloaded"

\* Pixel p of the image, counted row by row from 1: its column and row.
PixelX(p) == (p - 1) % imageData.width

PixelY(p) == (p - 1) \div imageData.width

\* The id the form and the palette give pixel p: the transparent tile id
\* below alpha 128, the tile id of the pixel's colour otherwise.
EffectiveId(p) ==
    IF ~IsOpaque(imageData, p)
    THEN TransparentId(variant, ret.form.transparentTileId)
    ELSE colorMappings.val[_rgbToHex(KeyOf(imageData, p)[1], KeyOf(imageData, p)[2],
                                     KeyOf(imageData, p)[3])].tileId

\* The tiles of ret.tiles placed at the map position of pixel p.
TilesOfPixel(p) ==
    {j \in 1..Len(ret.tiles) :
        /\ ret.tiles[j].x = PixelX(p) + Offset(variant, ret.form.offsetX)
        /\ ret.tiles[j].y = PixelY(p) + Offset(variant, ret.form.offsetY)}

\* C12: a conversion never adds a tile with groundId = 0: a pixel whose
\* palette entry has tile id 0 gets no tile, and with a transparent tile id
\* of 0 no pixel with alpha < 128 gets one.
C12_NoZeroGround ==
    Converted =>
        /\ \A j \in 1..Len(ret.tiles) : ret.tiles[j].groundId # 0
        /\ \A p \in 1..PixelCount(imageData) :
               EffectiveId(p) = 0 => TilesOfPixel(p) = {}

C12_Witness ==
    /\ Converted
    /\ Len(ret.tiles) = 2
    /\ \E p \in 1..PixelCount(imageData) : IsOpaque(imageData, p) /\ EffectiveId(p) = 0
    /\ \E p \in 1..PixelCount(imageData) : ~IsOpaque(imageData, p) /\ EffectiveId(p) = 0

\* The addTile calls expected for the pixels p, p + 1, ...: position and id.
RECURSIVE ExpectedCallsFrom(_)
ExpectedCallsFrom(p) ==
    IF p > PixelCount(imageData) THEN <<>>
    ELSE (IF EffectiveId(p) > 0
          THEN <<[x |-> PixelX(p) + Offset(variant, ret.form.offsetX),
                  y |-> PixelY(p) + Offset(variant, ret.form.offsetY),
                  groundId |-> EffectiveId(p)]>>
          ELSE <<>>) \o ExpectedCallsFrom(p + 1)

\* C13: the addTile calls of a conversion are exactly the pixels with an
\* effective id above 0, taken row by row (y outer, x inner), each with
\* groundId = effective id, x = pixelX + offsetX and y = pixelY + offsetY.
C13_RowMajorCalls ==
    Converted =>
        [j \in 1..Len(ret.tiles) |->
            [x |-> ret.tiles[j].x, y |-> ret.tiles[j].y,
             groundId |-> ret.tiles[j].groundId]] = ExpectedCallsFrom(1)

C13_Witness ==
    /\ Converted
    /\ Len(ret.tiles) = 4
    /\ ret.tiles[2] = [x |-> 256, y |-> 0, z |-> 7, groundId |-> 300, items |-> <<>>]
    /\ ret.tiles[3] = [x |-> 255, y |-> 1, z |-> 7, groundId |-> 65535, items |-> <<>>]

---------------------------------------------------------------------------
(* C14 - C16: the floor, the offsets and the 16-bit coordinates            *)

\* C14: for every floor typed into the form in the range 0..15, 0 included,
\* every tile a conversion places has that floor as its z.
C14_ConfiguredFloor ==
    (Converted /\ ~ret.form.zLevel.isNaN /\ ret.form.zLevel.n \in 0..15) =>
        \A j \in 1..Len(ret.tiles) : ret.tiles[j].z = ret.form.zLevel.n

\* What the form's offset fields say, an empty field standing for 0.
TypedOffsetX == IF ret.form.offsetX.isNaN THEN 0 ELSE ret.form.offsetX.n

TypedOffsetY == IF ret.form.offsetY.isNaN THEN 0 ELSE ret.form.offsetY.n

\* The last step was a conversion of a loaded image that was not cancelled
\* at the warning about ids 0: it came to the checks of the settings.
SettingsChecked ==
    ret.op = "_generateOTBM" /\ ret.outcome \notin {"noImage", "cancelled"}

\* No writer was created, no tile added and no byte produced.
NothingProduced ==
    /\ ret.outcome # "downloaded"
    /\ ~ret.created
    /\ writer = Null
    /\ ret.tiles = <<>>
    /\ ret.data = <<>>

\* C15: in part_000, a conversion with offsetX + width > 65535 or
\* offsetY + height > 65535 ends with the overflow error before a writer is
\* created, a tile added or a byte produced; any other conversion is not
\* refused for overflow.
C15_OverflowRefused ==
    (SettingsChecked /\ variant = "part_000") =>
        LET overflow == \/ TypedOffsetX + image.width > 65535
                        \/ TypedOffsetY + image.height > 65535
        IN  /\ overflow => ret.outcome = "overflow" /\ NothingProduced
            /\ ~overflow => ret.outcome # "overflow"

C15_Witness ==
    /\ SettingsChecked /\ variant = "part_000"
    /\ image.width = 1 /\ image.height = 1
    /\ TypedOffsetX = 65535
    /\ ret.outcome = "overflow" /\ NothingProduced

\* C16: in app.js and in part_000 alike, whatever the offset fields hold,
\* every tile a conversion places has x and y in 0..65535 and the width and
\* height given to the writer are at most 65535.
C16_CoordinatesFitU16 ==
    Converted =>
        /\ \A j \in 1..Len(ret.tiles) :
               ret.tiles[j].x \in 0..65535 /\ ret.tiles[j].y \in 0..65535
        /\ writer.width <= 65535
        /\ writer.height <= 65535

---------------------------------------------------------------------------
(* C17: the size check.  _checkImageComplexity is applied to sides around  *)
(* the limits of both variants, and images of such sizes are loaded.       *)

\* Sides tried: at and just above each limit, and two sides whose product
\* with 4500 is at and just above 13,500,000.
DimensionArgs == {1, 2048, 2049, 3000, 3001, 4500, 4501, 5000}

\* Images loaded: one row and one column just above the side limit of
\* part_000, and a small one.
SizedImages ==
    {Picture(4501, 1, <<>>, 0, Red), Picture(1, 4501, <<>>, 0, Red),
     Picture(2, 1, <<Red, Blue>>, 0, Red)}

CheckImageComplexity ==
    \E width \in DimensionArgs, height \in DimensionArgs :
        /\ ret' = [op |-> "_checkImageComplexity", width |-> width,
                   height |-> height,
                   complexity |-> _checkImageComplexity(variant, width, height)]
        /\ UNCHANGED <<writer, payload, probe, pending>>
        /\ UNCHANGED appVars

LoadSized == ImgOnloadOf(SizedImages)

NextComplexity == CheckImageComplexity \/ LoadSized

SpecComplexity == InitConv /\ [][NextComplexity]_vars

\* The limits the claim gives: 4500 a side and 13,500,000 pixels.
WithinLimits(width, height) ==
    width <= 4500 /\ height <= 4500 /\ width * height <= 13500000

\* C17: in part_000, _checkImageComplexity answers valid exactly for
\* width <= 4500, height <= 4500 and width x height <= 13,500,000; an image
\* it rejects is reported as an error and not one pixel of it is analysed.
C17_ComplexityLimits ==
    variant = "part_000" =>
        /\ ret.op = "_checkImageComplexity" =>
               /\ ret.complexity.valid <=> WithinLimits(ret.width, ret.height)
               /\ ~ret.complexity.valid =>
                      ret.complexity.error \in {"Image too large", "Image too complex"}
        /\ ret.op = "onload" =>
               IF WithinLimits(ret.img.width, ret.img.height)
               THEN ret.result # "tooLarge"
               ELSE ret.result = "tooLarge" /\ ret.read = 0 /\ imageData = Null

C17_Witness ==
    /\ variant = "part_000"
    /\ ret.op = "_checkImageComplexity"
    /\ ret.width = 3001 /\ ret.height = 4500
    /\ ~ret.complexity.valid
    /\ imageData # Null

---------------------------------------------------------------------------
(* C18 - C20: refusals for the client, repeated output, Scenario A         *)

\* C18: when getClientConfig does not find the selected client, or
\* getOTBVersion does not find its otb name, the conversion ends with an
\* error before a writer is created: no tile is added, nothing is generated
\* or downloaded and no byte is produced.
C18_UnknownClientRefused ==
    (SettingsChecked /\ ret.outcome # "overflow") =>
        LET clientConfig == getClientConfig(ret.form.clientVersion)
            missing == \/ clientConfig = Null
                       \/ getOTBVersion(clientConfig.otb) = Null
        IN  missing => ret.outcome \in {"noClient", "noOtb"} /\ NothingProduced

C18_Witness ==
    /\ SettingsChecked
    /\ variant = "part_000"
    /\ image # Null
    /\ MapSize(colorMappings) = 2
    /\ getClientConfig(ret.form.clientVersion) = Null
    /\ ret.outcome = "noClient"
    /\ writer = Null /\ ret.data = <<>>

\* C19: the bytes of a conversion depend on its inputs only: a conversion
\* repeated with the same form on the same image and palette gives the same
\* bytes, and generate() called again on the writer of a conversion returns
\* the bytes it returned before (its buffer is reset, not appended to) and
\* leaves the tiles as they are.
C19_Deterministic ==
    [][/\ Converted' =>
              /\ writer'.buffer = ret'.data
              /\ generate(writer') = ret'.data
              /\ download(writer').tiles = writer'.tiles
       /\ (Converted /\ Converted' /\ ret'.form = ret.form) =>
              ret'.data = ret.data /\ writer' = writer]_vars

C19_Witness ==
    /\ Converted
    /\ Len(writer.tiles) = 4
    /\ Len(writer.buffer) > 4
    /\ generate(writer) = writer.buffer

\* Every pixel is opaque and has a tile id above 0, and the tiles placed
\* are at map coordinates of one 256 x 256 cell.
ScenarioA ==
    /\ Converted
    /\ \A p \in 1..PixelCount(imageData) :
           IsOpaque(imageData, p) /\ EffectiveId(p) \in 1..65535
    /\ \A j \in 1..Len(ret.tiles) :
           /\ ret.tiles[j].x \in 0..65535 /\ ret.tiles[j].y \in 0..65535
           /\ ret.tiles[j].x \div 256 = ret.tiles[1].x \div 256
           /\ ret.tiles[j].y \div 256 = ret.tiles[1].y \div 256

\* C20: for a fully opaque image whose pixels fall into one 256 x 256 cell
\* and whose colours all have non-zero tile ids, the output has exactly one
\* Tile-Area node with width x height Tile nodes, one per pixel in row-major
\* order and with the ground id of the pixel's colour, no Item node, the
\* description string of the conversion, and an empty Towns node.
C20_ScenarioA ==
    ScenarioA =>
        LET t == Tokens(ret.data)
            D == Depths(t)
            areas == DecodedAreas(t)
            n == PixelCount(imageData)
            text == MapDescription(getClientConfig(ret.form.clientVersion))
            towns == {i \in Starts(t) : NodeType(t, i) = OTBM_TOWNS}
        IN  /\ Len(areas) = 1
            /\ Len(areas[1].tiles) = n
            /\ n = imageData.width * imageData.height
            /\ \A p \in 1..n :
                   /\ areas[1].tileTypes[p] = OTBM_TILE
                   /\ areas[1].tiles[p].groundId = EffectiveId(p)
                   /\ areas[1].baseX + areas[1].tiles[p].xOffset
                          = PixelX(p) + Offset(variant, ret.form.offsetX)
                   /\ areas[1].baseY + areas[1].tiles[p].yOffset
                          = PixelY(p) + Offset(variant, ret.form.offsetY)
                   /\ areas[1].tiles[p].items = <<>>
            /\ {i \in Starts(t) : NodeType(t, i) = OTBM_ITEM} = {}
            /\ NodeData(t, 23) = <<OTBM_ATTR_DESCRIPTION>> \o LEBytes(Len(text), 2) \o text
            /\ Cardinality(towns) = 1
            /\ \A i \in towns : IsEmptyNode(t, i) /\ Parent(t, D, i) = 23

C20_Witness ==
    /\ ScenarioA
    /\ imageData.width = 2 /\ imageData.height = 2
    /\ ret.form = DefaultForm
    /\ [j \in 1..Len(ret.tiles) |-> ret.tiles[j].groundId] = <<5, 65535, 65535, 5>>
    /\ Len(DecodedAreas(Tokens(ret.data))[1].tiles) = 4

---------------------------------------------------------------------------
(* C21: a conversion that places no tile                                   *)

\* C21: when a conversion places no tile, its output has no Tile-Area node
\* and no Tile node, and the Map-Data node holds the description attribute
\* (byte 1, then the length-prefixed string), an empty Towns node and, if and
\* only if otbmVersion >= 2, an empty Waypoints node after it.
C21_NoTilesOutput ==
    (Converted /\ ret.tiles = <<>>) =>
        LET t == Tokens(ret.data)
            D == Depths(t)
            c == Children(t, D, 23)
            text == MapDescription(getClientConfig(ret.form.clientVersion))
        IN  /\ {i \in Starts(t) : NodeType(t, i) \in {OTBM_TILE_AREA, OTBM_TILE}} = {}
            /\ NodeType(t, 23) = OTBM_MAP_DATA
            /\ NodeData(t, 23)
                   = <<OTBM_ATTR_DESCRIPTION>> \o LEBytes(Len(text), 2) \o text
            /\ Len(c) = IF writer.otbmVersion >= 2 THEN 2 ELSE 1
            /\ NodeType(t, c[1]) = OTBM_TOWNS /\ IsEmptyNode(t, c[1])
            /\ writer.otbmVersion >= 2 =>
                   NodeType(t, c[2]) = OTBM_WAYPOINTS /\ IsEmptyNode(t, c[2])
            /\ Starts(t) = {5, 23} \cup {c[k] : k \in 1..Len(c)}

\* the all-transparent 3 x 3 image, transparent tile id 0, for a client
\* whose otbmVersion is 1
C21_Witness ==
    /\ Converted
    /\ ret.tiles = <<>>
    /\ imageData.width = 3 /\ imageData.height = 3
    /\ transparentPixelCount = 9
    /\ TransparentId(variant, ret.form.transparentTileId) = 0
    /\ writer.otbmVersion = 1
    /\ Len(ret.data) > 40

---------------------------------------------------------------------------
(* C23: ids outside 0..65535 given to addTile                              *)

\* C23: a ground id or extra item id outside 0..65535 given to addTile is
\* rejected with an error and is never written as its value modulo 65536:
\* when generate() has returned bytes, every id of the tile list is in
\* 0..65535.
C23_OutOfRangeRejected ==
    Generated =>
        \A j \in 1..Len(writer.tiles) :
            /\ writer.tiles[j].groundId \in 0..65535
            /\ \A k \in 1..Len(writer.tiles[j].items) :
                   writer.tiles[j].items[k] \in 0..65535

---------------------------------------------------------------------------
(* The integer and string writers on their own: a run makes one call of    *)
(* _writeU16, _writeU32 or _writeString on an empty buffer.                *)

\* The operand of & and >>: a number of 0..2^32-1, given by its two 16-bit
\* halves, converted to a signed 32-bit integer as JavaScript does.
ToInt32(hi, lo) ==
    IF hi >= 32768 THEN (hi - 65536) * 65536 + lo ELSE hi * 65536 + lo

\* 16-bit values tried: the probe byte as high and as low byte, next to
\* another byte that needs escaping or not.
U16Args ==
    LET other == {0, 1, 252, 253, 254, 255} IN
    {probe * 256 + k : k \in other} \cup {k * 256 + probe : k \in other}

\* Halves of the 32-bit values tried.
HalfArgs == {0, probe * 256 + 255, 64768 + probe, 65535}

\* Strings tried, as UTF-16 code units: empty, one unit, two units with a
\* 3-byte character, a surrogate pair, a lone surrogate, and 64 characters
\* making 253 and 254 bytes (63 surrogate pairs of 4 bytes each, then an 'a'
\* or an 'e' with an acute accent).
StringArgs ==
    {<<>>, <<probe>>, <<probe, 8364>>, <<55357, 56832>>, <<56832>>}
        \cup {[i \in 1..127 |-> IF i = 127 THEN last
                                ELSE IF i % 2 = 1 THEN 55357 ELSE 56832] :
                  last \in {97, 233}}

EncodeCall(op, arg, pushed) ==
    /\ payload = <<>>
    /\ writer' = [writer EXCEPT !.buffer = @ \o pushed]
    /\ payload' = <<[op |-> op, arg |-> arg]>>
    /\ ret' = [op |-> op, data |-> <<>>, areas |-> <<>>]
    /\ UNCHANGED <<probe, pending>>
    /\ UNCHANGED appVars

WriteU16Once == \E v \in U16Args : EncodeCall("_writeU16", <<v>>, _writeU16(v))

WriteU32Once ==
    \E hi \in HalfArgs, lo \in HalfArgs :
        EncodeCall("_writeU32", <<hi, lo>>, _writeU32(ToInt32(hi, lo)))

WriteStringOnce ==
    \E str \in StringArgs : EncodeCall("_writeString", str, _writeString(str))

NextEncode == WriteU16Once \/ WriteU32Once \/ WriteStringOnce

SpecEncode == InitPrim /\ [][NextEncode]_vars

---------------------------------------------------------------------------
(* C25 - C26                                                               *)

\* What the escaping rule makes of one byte, and of a sequence of bytes.
Escaped(b) == IF b \in {253, 254, 255} THEN <<253, b>> ELSE <<b>>

RECURSIVE EscapedIn(_, _, _)
EscapedIn(bytes, lo, hi) ==
    IF lo > hi THEN <<>>
    ELSE IF lo = hi THEN Escaped(bytes[lo])
    ELSE EscapedIn(bytes, lo, (lo + hi) \div 2)
             \o EscapedIn(bytes, ((lo + hi) \div 2) + 1, hi)

\* C25: _writeU16(v), v in 0..65535, pushes the escaped low byte and then
\* the escaped high byte; _writeU32(v), v in 0..2^32-1, pushes the four
\* bytes of v from least to most significant, each escaped on its own; the
\* unescaped bytes read little-endian give v back.
C25_LittleEndian ==
    payload # <<>> =>
        LET call == payload[1]
            bytes == Unescape(writer.buffer)
        IN  /\ call.op = "_writeU16" =>
                   LET v == call.arg[1] IN
                   /\ v \in 0..65535
                   /\ writer.buffer = Escaped(v % 256) \o Escaped(v \div 256)
                   /\ Len(bytes) = 2 /\ LEValue(bytes) = v
            /\ call.op = "_writeU32" =>
                   LET hi == call.arg[1]
                       lo == call.arg[2]
                   IN  /\ writer.buffer
                              = Escaped(lo % 256) \o Escaped(lo \div 256)
                                    \o Escaped(hi % 256) \o Escaped(hi \div 256)
                       /\ Len(bytes) = 4
                       /\ LEValue(SubSeq(bytes, 1, 2)) = lo
                       /\ LEValue(SubSeq(bytes, 3, 4)) = hi

\* _writeU32(2^32 - 1): four bytes 255, each escaped
C25_Witness ==
    /\ payload # <<>>
    /\ payload[1].op = "_writeU32"
    /\ payload[1].arg = <<65535, 65535>>
    /\ writer.buffer = <<253, 255, 253, 255, 253, 255, 253, 255>>

\* C26: _writeString pushes the u16 count of the string's UTF-8 bytes
\* (counted before escaping, and not the count of characters), escaped,
\* and then those bytes, each escaped; in the Map-Data node it follows the
\* attribute byte 1, which is written unescaped.
C26_StringLength ==
    (payload # <<>> /\ payload[1].op = "_writeString") =>
        LET str == payload[1].arg
            utf8 == TextEncode(str)
            n == Len(utf8)
            t == Tokens(writer.buffer)
            bytes == [i \in 1..Len(t) |-> t[i].v]
            mapData == _writeMapData(constructor(1, 1, str, 2, 2, 7))
        IN  /\ writer.buffer
                   = Escaped(n % 256) \o Escaped(n \div 256) \o EscapedIn(utf8, 1, n)
            /\ LEValue(SubSeq(bytes, 1, 2)) = n
            /\ SubSeq(bytes, 3, Len(bytes)) = utf8
            /\ SubSeq(mapData, 1, 3 + Len(writer.buffer))
                   = <<NODE_START, OTBM_MAP_DATA, OTBM_ATTR_DESCRIPTION>>
                         \o writer.buffer

\* 63 characters of four bytes and one of two: 64 characters, 127 code
\* units, 254 bytes, and the length 254 needs an escape itself
C26_Witness ==
    /\ payload # <<>>
    /\ payload[1].op = "_writeString"
    /\ Len(payload[1].arg) = 127
    /\ SubSeq(writer.buffer, 1, 7) = <<253, 254, 0, 240, 159, 152, 128>>
    /\ Len(writer.buffer) = 257

---------------------------------------------------------------------------
(* C27: tile ids after an analysis                                         *)

\* C27: a successful analysis gives each palette entry the id the saved
\* colour-mapping store holds for its colour, and 0 if the store has none,
\* and it leaves the store as it was.
C27_RestoreOnly ==
    [][(ret'.op = "onload") =>
           /\ savedMappings' = savedMappings
           /\ ret'.result = "success" =>
                  \A j \in 1..Len(colorMappings'.keys) :
                      LET hex == colorMappings'.keys[j]
                          at == {k \in 1..Len(savedMappings) : savedMappings[k][1] = hex}
                      IN  /\ at = {} => colorMappings'.val[hex].tileId = 0
                          /\ \A k \in at :
                                 colorMappings'.val[hex].tileId = savedMappings[k][2]]_vars

\* a load that restored an id for one colour and gave 0 to another
C27_Witness ==
    /\ Loaded("success")
    /\ variant = "part_000"
    /\ Len(savedMappings) = 1
    /\ \E j \in 1..Len(colorMappings.keys) :
           colorMappings.val[colorMappings.keys[j]].tileId = savedMappings[1][2]
    /\ \E j \in 1..Len(colorMappings.keys) :
           colorMappings.val[colorMappings.keys[j]].tileId = 0

---------------------------------------------------------------------------
(* The operations of part_000 that change tile ids in the palette: the     *)
(* analysis with its restore from localStorage, the 'change' handler of an *)
(* id field, the import of a mappings file and the drop of a favourite.    *)
(* localStorage and the imported file are written outside the page, so     *)
(* their contents are inputs.                                              *)

\* Contents of 'pngToOtbmColorMappings' tried: none, an id in range, and
\* ids outside 0..65535.
SavedArgs ==
    {<<>>,
     <<<<_rgbToHex(255, 0, 0), 7>>>>,
     <<<<_rgbToHex(255, 0, 0), 70000>>, <<_rgbToHex(0, 16, 255), -5>>>>}

\* The colors arrays of the files imported: ids above and below the range,
\* an entry without tileId, and an entry without a hex string.
ImportArgs ==
    {<<[hex |-> _rgbToHex(255, 0, 0), tileId |-> 70000]>>,
     <<[hex |-> _rgbToHex(0, 16, 255), tileId |-> -2],
       [hex |-> _rgbToHex(255, 0, 0)]>>,
     <<[tileId |-> 3], [hex |-> _rgbToHex(0, 16, 255), tileId |-> 300]>>}

\* Entries of this.favorites, parsed from 'pngToOtbmFavorites'.
FavoriteArgs == {[tileId |-> 9], [tileId |-> 70000]}

InitPalette ==
    /\ writer = Null
    /\ ret = NoReturn
    /\ payload = <<>>
    /\ probe = 0
    /\ variant = "part_000"
    /\ savedMappings \in SavedArgs
    /\ AppConstructed

PaletteOnload ==
    ImgOnloadOf({Picture(1, 1, <<Red>>, 0, Red), Picture(2, 1, <<Red, Blue>>, 0, Red)})

\* for (const colorData of importData.colors): the palette after the
\* entries i, i + 1, ... of the array
RECURSIVE ImportColorsFrom(_, _, _)
ImportColorsFrom(mappings, colors, i) ==
    IF i > Len(colors) THEN mappings
    ELSE LET colorData == colors[i]
             tileId == IF "tileId" \in DOMAIN colorData THEN colorData.tileId ELSE 0
         IN  IF "hex" \notin DOMAIN colorData \/ ~MapHas(mappings, colorData.hex)
             THEN ImportColorsFrom(mappings, colors, i + 1)
             ELSE ImportColorsFrom(
                      [mappings EXCEPT !.val[colorData.hex].tileId =
                                           Max(0, Min(65535, tileId))],
                      colors, i + 1)

\* reader.onload of _importMappings
ImportMappings ==
    \E colors \in ImportArgs :
        \E imported \in {ImportColorsFrom(colorMappings, colors, 1)} :
            /\ colorMappings' = imported
            /\ savedMappings' = _saveColorMappings(imported)
            /\ ret' = [op |-> "import", colors |-> colors]
            /\ UNCHANGED <<variant, image, imageData, transparentPixelCount>>
            /\ UNCHANGED <<writerVars, pending>>

\* The 'drop' handler of a colour row, for a favourite found in this.favorites
DropFavorite ==
    \E hex \in RowArgs, favorite \in FavoriteArgs :
        LET dropped == [colorMappings EXCEPT !.val[hex].tileId = favorite.tileId] IN
        /\ MapHas(colorMappings, hex)
        /\ colorMappings' = dropped
        /\ savedMappings' = _saveColorMappings(dropped)
        /\ ret' = [op |-> "drop", hex |-> hex, tileId |-> favorite.tileId]
        /\ UNCHANGED <<variant, image, imageData, transparentPixelCount>>
        /\ UNCHANGED <<writerVars, pending>>

NextPalette == PaletteOnload \/ ChangeTileId \/ ImportMappings \/ DropFavorite

SpecPalette == InitPalette /\ [][NextPalette]_vars

\* C22: after any sequence of analyses, edits of an id field, imports and
\* drops of a favourite, every palette entry's tileId is an integer of
\* 0..65535, whatever the saved mappings, the imported file and the
\* favourites hold.
C22_TileIdsInRange ==
    \A j \in 1..Len(colorMappings.keys) :
        colorMappings.val[colorMappings.keys[j]].tileId \in 0..65535

---------------------------------------------------------------------------
(* C24: conversions after a load that failed.  Images that load, that are  *)
(* too large and that have too many colours are loaded, ids are edited,    *)
(* and Generate is pressed with the form as the page shows it first.       *)

FailingImages ==
    {Picture(2, 1, <<Red, Blue>>, 0, Red), Picture(4501, 1, <<>>, 0, Red), Image257}

LoadFailing == ImgOnloadOf(FailingImages)

GenerateDefault == GenerateOTBMOf({DefaultForm})

NextFailedLoad == LoadFailing \/ ConvChangeTileId \/ GenerateDefault

SpecFailedLoad == InitConv /\ [][NextFailedLoad]_vars

\* C24: a load that ends in the size error or the colour-limit error leaves
\* no image; as long as there is none, that is until a load succeeds, each
\* _generateOTBM creates no writer and produces no byte, and it does not
\* load or analyse anything itself.
C24_NoOutputAfterFailure ==
    [][/\ (ret'.op = "onload" /\ ret'.result \in {"tooLarge", "overflow"}) =>
              image' = Null /\ imageData' = Null
       /\ (image = Null /\ image' # Null) =>
              ret'.op = "onload" /\ ret'.result = "success"
       /\ (image = Null /\ ret'.op = "_generateOTBM") =>
              /\ ret'.outcome = "noImage"
              /\ ~ret'.created /\ writer' = Null
              /\ ret'.tiles = <<>> /\ ret'.data = <<>>
              /\ UNCHANGED appVars]_vars

\* Generate pressed in part_000 while no image is loaded although ids were
\* saved for an earlier image: a load has failed since
C24_Witness ==
    /\ ret.op = "_generateOTBM"
    /\ ret.outcome = "noImage"
    /\ variant = "part_000"
    /\ image = Null /\ imageData = Null
    /\ savedMappings # <<>>
    /\ writer = Null

---------------------------------------------------------------------------
(* C29: the analysis and the pixel loop classify pixels alike              *)

\* C29: when a conversion runs on an analysed image, every pixel with
\* alpha >= 128 has its colour in the palette, and a pixel gets no tile only
\* because it is transparent while the transparent tile id is not above 0,
\* or because the tile id of its palette entry is not above 0.
C29_ClassificationAgrees ==
    Converted =>
        \A p \in 1..PixelCount(imageData) :
            LET hex == _rgbToHex(KeyOf(imageData, p)[1], KeyOf(imageData, p)[2],
                                 KeyOf(imageData, p)[3])
            IN  /\ IsOpaque(imageData, p) => MapHas(colorMappings, hex)
                /\ TilesOfPixel(p) = {} =>
                       IF IsOpaque(imageData, p)
                       THEN colorMappings.val[hex].tileId <= 0
                       ELSE TransparentId(variant, ret.form.transparentTileId) <= 0

\* a pixel at alpha 128 placed with its colour's id, beside a transparent
\* pixel and a colour at id 0 that are skipped
C29_Witness ==
    /\ Converted
    /\ PixelCount(imageData) = 4
    /\ AlphaOf(imageData, 4) = 128 /\ TilesOfPixel(4) # {}
    /\ AlphaOf(imageData, 2) = 127 /\ TilesOfPixel(2) = {}
    /\ TilesOfPixel(3) = {}
    /\ Len(ret.tiles) = 2

---------------------------------------------------------------------------
(* C30: the two variants of _generateOTBM on their common domain           *)

\* The settings and the palette lie where neither variant clamps or refuses:
\* an image within 2048 x 2048, palette ids and the transparent tile id
\* within 0..65535, offsets not negative with offset + side within 65535.
CommonDomain(form) ==
    /\ image # Null /\ imageData # Null
    /\ image.width <= 2048 /\ image.height <= 2048
    /\ \A k \in DOMAIN colorMappings.val :
           colorMappings.val[k].tileId \in 0..65535
    /\ ParsedOr(form.transparentTileId, 0) \in 0..65535
    /\ ParsedOr(form.offsetX, 0) >= 0
    /\ ParsedOr(form.offsetY, 0) >= 0
    /\ ParsedOr(form.offsetX, 0) + image.width <= 65535
    /\ ParsedOr(form.offsetY, 0) + image.height <= 65535

\* C30: for an image, a palette and settings of the common domain, the
\* _generateOTBM of app.js and the one of part_000 end alike, construct the
\* writer with the same arguments, make the same addTile calls in the same
\* order and hand the same bytes to the download; the conversion that just
\* ran, in whichever variant, is that common result.
C30_VariantsAgree ==
    (ret.op = "_generateOTBM" /\ CommonDomain(ret.form)) =>
        /\ \A proceed \in BOOLEAN :
               LET a == _generateOTBM("app.js", App, ret.form, proceed)
                   b == _generateOTBM("part_000", App, ret.form, proceed)
               IN  /\ a.outcome = b.outcome
                   /\ a.writer = b.writer
                   /\ a.data = b.data
        /\ Converted =>
               LET a == _generateOTBM("app.js", App, ret.form, TRUE)
                   b == _generateOTBM("part_000", App, ret.form, TRUE)
               IN  /\ writer = a.writer /\ writer = b.writer
                   /\ ret.tiles = a.writer.tiles /\ ret.tiles = b.writer.tiles
                   /\ ret.data = a.data /\ ret.data = b.data

\* a conversion of the common domain with an offset, placing tiles for a
\* transparent pixel (id 300) and for coloured ones
C30_Witness ==
    /\ Converted
    /\ CommonDomain(ret.form)
    /\ ret.form.transparentTileId = Number(300)
    /\ ret.form.offsetX = Number(255)
    /\ PixelCount(imageData) = 4
    /\ AlphaOf(imageData, 2) = 127
    /\ Len(ret.tiles) = 4
    /\ ret.tiles[2].groundId = 300 /\ ret.tiles[2].x = 256
    /\ ret.tiles[1].groundId = 5
    /\ Len(ret.data) > 0

---------------------------------------------------------------------------
(* Loads in flight: _loadImage returns once the FileReader is started; the *)
(* reader's onload, and then the image's onload or onerror, run later, one  *)
(* callback at a time, in whatever order the browser finishes the work.    *)

\* The most loads in flight at once
MaxInFlight == 2

\* Files dropped or chosen: a red pixel; four pixels of two colours, one of
\* them transparent; an image over the colour limit; an image over the size
\* limit; and a file that is no image.
FileArgs ==
    {[decodes |-> TRUE, img |-> i] :
         i \in {Picture(1, 1, <<Red>>, 0, Red),
                Picture(2, 2, <<Blue, RedAt127, Blue, RedAt128>>, 0, Red),
                Image257,
                Picture(4501, 1, <<>>, 0, Red)}}
        \cup {[decodes |-> FALSE]}

RemoveAt(s, i) == SubSeq(s, 1, i - 1) \o SubSeq(s, i + 1, Len(s))

\* _loadImage(file): reader.readAsDataURL(file)
LoadImage ==
    \E file \in FileArgs :
        /\ Len(pending) < MaxInFlight
        /\ pending' = Append(pending, [file |-> file, stage |-> "reading"])
        /\ ret' = [op |-> "_loadImage", file |-> file]
        /\ UNCHANGED <<writerVars, appVars>>

\* reader.onload: img = new Image(), its handlers set, img.src assigned
ReaderOnload ==
    \E i \in 1..Len(pending) :
        /\ pending[i].stage = "reading"
        /\ pending' = [pending EXCEPT ![i].stage = "decoding"]
        /\ ret' = [op |-> "reader.onload", file |-> pending[i].file]
        /\ UNCHANGED <<writerVars, appVars>>

\* img.onload of the load in slot i, whichever load was started first
PendingImgOnload ==
    \E i \in 1..Len(pending) :
        /\ pending[i].stage = "decoding"
        /\ pending[i].file.decodes
        /\ LET img == pending[i].file.img
               r == imgOnload(variant, App, savedMappings, img)
           IN  /\ image' = r.app.image
               /\ imageData' = r.app.imageData
               /\ colorMappings' = r.app.colorMappings
               /\ transparentPixelCount' = r.app.transparentPixelCount
               /\ ret' = [op |-> "onload", img |-> img, result |-> r.result,
                          read |-> r.read,
                          hadPalette |-> MapSize(colorMappings) > 0, slot |-> i]
        /\ pending' = RemoveAt(pending, i)
        /\ UNCHANGED <<variant, savedMappings>>
        /\ UNCHANGED writerVars

\* img.onerror: only the status line changes
ImgOnerror ==
    \E i \in 1..Len(pending) :
        /\ pending[i].stage = "decoding"
        /\ ~pending[i].file.decodes
        /\ pending' = RemoveAt(pending, i)
        /\ ret' = [op |-> "onerror", file |-> pending[i].file]
        /\ UNCHANGED <<writerVars, appVars>>

\* Tile ids are also edited while loads are in flight.
NextLoads ==
    LoadImage \/ ReaderOnload \/ PendingImgOnload \/ ImgOnerror \/ ConvChangeTileId

SpecLoads == InitConv /\ [][NextLoads]_vars

---------------------------------------------------------------------------
(* C28: the state after callbacks of several loads                         *)

\* image, imageData and the palette as the constructor or an error path
\* leaves them
NothingLoaded == image = Null /\ imageData = Null /\ colorMappings = NewMap

\* The pixels of img that count as opaque, and the key of pixel p
OpaquePixels(img) ==
    {p \in 1..PixelCount(getImageData(img)) : IsOpaque(getImageData(img), p)}

HexOfPixel(img, p) ==
    _rgbToHex(KeyOf(getImageData(img), p)[1], KeyOf(getImageData(img), p)[2],
              KeyOf(getImageData(img), p)[3])

\* image, imageData, the palette and transparentPixelCount all describe img
AllFrom(img) ==
    /\ image = img
    /\ imageData = getImageData(img)
    /\ DOMAIN colorMappings.val = {HexOfPixel(img, p) : p \in OpaquePixels(img)}
    /\ {colorMappings.keys[j] : j \in 1..Len(colorMappings.keys)}
           = DOMAIN colorMappings.val
    /\ Len(colorMappings.keys) = Cardinality(DOMAIN colorMappings.val)
    /\ \A k \in DOMAIN colorMappings.val :
           /\ colorMappings.val[k].hex = k
           /\ colorMappings.val[k].count =
                  Cardinality({p \in OpaquePixels(img) : HexOfPixel(img, p) = k})
    /\ transparentPixelCount =
           PixelCount(getImageData(img)) - Cardinality(OpaquePixels(img))

C28_Consistent ==
    NothingLoaded \/ \E file \in FileArgs : file.decodes /\ AllFrom(file.img)

\* What one callback does: img.onload leaves nothing loaded or everything
\* from its own image; the other callbacks leave the four fields alone.
C28_Callback ==
    /\ (ret.op = "onload" => (NothingLoaded \/ AllFrom(ret.img)))'
    /\ ret'.op \in {"_loadImage", "reader.onload", "onerror"} =>
           UNCHANGED <<image, imageData, colorMappings, transparentPixelCount>>

\* C28: with several loads in flight, whose FileReader and Image callbacks
\* run in any order, after every callback either image, imageData and the
\* palette are all null or empty, or image, imageData, the palette and
\* transparentPixelCount all come from one image, the one whose img.onload
\* ran last; the palette never holds entries of two images.
C28_ConsistentAfterCallbacks ==
    []C28_Consistent /\ [][C28_Callback]_vars

\* img.onload of the two-colour image ran over the palette of another image
\* while a load started before it is still waiting for its own img.onload
C28_Witness ==
    /\ ret.op = "onload" /\ ret.result = "success" /\ ret.hadPalette
    /\ ret.img = Picture(2, 2, <<Blue, RedAt127, Blue, RedAt128>>, 0, Red)
    /\ ret.slot = 2
    /\ Len(pending) = 1
    /\ pending[1].stage = "decoding"
    /\ pending[1].file.decodes
    /\ pending[1].file.img = Picture(1, 1, <<Red>>, 0, Red)
    /\ AllFrom(ret.img)
    /\ MapSize(colorMappings) = 2
    /\ transparentPixelCount = 1

====
